---- MODULE Spec2Model ----
(***************************************************************************)
(* A model of the UVFaceFilter class of src/main.js (lines 36-2291): the   *)
(* frame scheduler (render loops, detector admission, fallback flags) and  *)
(* the per-frame masked pixel pipeline.                                    *)
(*                                                                         *)
(* Numbers.  Landmark coordinates and squared distances are fractions      *)
(* [n, d]; the colour arithmetic is done in doubles, rounded as IEEE-754   *)
(* rounds them; the thresholds of the masks are compared as the            *)
(* Float32Array elements are.  Times are whole milliseconds.               *)
(***************************************************************************)
EXTENDS Integers, Sequences, FiniteSets, TLC

VARIABLES
    \* ---- fields of the UVFaceFilter object (constructor, lines 72-120)
    faceMesh,            \* TRUE when this.faceMesh holds a FaceMesh instance
    camera,              \* MediaPipe Camera utility: "none", "running", "stopped"
    mediaPipeReady,
    isProcessing,
    animationFrame,      \* NoHandle or the handle last returned by requestAnimationFrame
    fallbackActive,
    renderLoopActive,
    lastLandmarks,
    landmarkHistory,
    emaLandmarks,
    lastProcessedSkin,
    lastFrameTime,
    faceMeshFailCount,
    videoReady,
    \* ---- the browser around the object
    now,                 \* performance.now(), in ms
    haveCurrentData,     \* video.readyState >= video.HAVE_CURRENT_DATA
    hasWidth,            \* video.videoWidth > 0
    hasHeight,           \* video.videoHeight > 0
    rafQueue,            \* pending requestAnimationFrame callbacks
    canvas,              \* what the last paint put on the canvas, and how
    \* ---- observations of the run (history variables, never read by the code)
    inFlight,            \* faceMesh.send() calls issued and not yet settled
    consecutiveRejects,  \* rejected send() calls since the last resolved one
    loopStarted,         \* a render loop has been started
    degraded,            \* the failure threshold has been reached
    \* ---- one pixel of one applyUVFilter call (the pixel pipeline below)
    frame,               \* the call's inputs at that pixel
    out,                 \* what the call computed for that pixel
    \* ---- observations kept by the specifications that watch one method
    smoothCall,          \* the last call of smoothLandmarks: input, state before and after
    renderClock,         \* the time since a render-loop tick last drew a frame
    sendClock,           \* the time since onFrame last called faceMesh.send()
    \* ---- the page around the object (lines 7-9 and 2293-2356)
    page                 \* the window's flags, the pending timers, the camera request

vars == << faceMesh, camera, mediaPipeReady, isProcessing, animationFrame,
           fallbackActive, renderLoopActive, lastLandmarks, landmarkHistory,
           emaLandmarks, lastProcessedSkin, lastFrameTime, faceMeshFailCount,
           videoReady, now, haveCurrentData, hasWidth, hasHeight, rafQueue, canvas,
           inFlight, consecutiveRejects, loopStarted, degraded, frame, out,
           smoothCall, renderClock, sendClock, page >>

\* null where the code holds an array or null (a landmark set, a pixel buffer):
\* a value that is no sequence, so that it differs from the empty array [] too
NULL == [i \in {0} |-> 0]
\* null in this.lastProcessedSkin; a buffer is "fresh" (the processed skin of
\* one frame) or "blended" (mixed with the buffer of the frame before)
NoBuffer == "null"
\* null in this.animationFrame; handles are positive
NoHandle == 0
\* a z coordinate the detector left out; coordinates are records
Undefined == [n |-> 0, d |-> 0]
\* no pixel is looked at; no pixel has been computed
NoFrame == [landmarks |-> NULL]
NotApplied == [lut |-> "unset"]
\* smoothLandmarks has not been called
NoCall == [raw |-> "none"]

(***************************************************************************)
(* Bounds of the model.                                                    *)
(***************************************************************************)
\* rejected send() calls in a row the detector is allowed
MaxRejects == 5
\* EMA updates (entries pushed on landmarkHistory) the detector is allowed
MaxSmoothings == 1

(***************************************************************************)
(* Program constants.                                                      *)
(***************************************************************************)
\* this.targetFPS; frameInterval = 1000 / targetFPS
targetFPS == 30
\* the failure count at which onFrame's catch forces fallback
FailThreshold == 5
\* this.maxHistoryFrames
maxHistoryFrames == 5
\* the delay of the timers that construct the object, in ms
InitDelayMs == 100

\* no render-loop tick has drawn a frame: the clock shows the time since the
\* object was constructed
NoRender == [fresh |-> {}, age |-> InitDelayMs, early |-> FALSE]
\* onFrame has not called faceMesh.send()
NoSend == [age |-> InitDelayMs, early |-> FALSE, sends |-> 0]
\* the page is not looked at: the object exists and its camera was granted
NoPage == [instance |-> TRUE]

(***************************************************************************)
(* Exact fractions.                                                        *)
(***************************************************************************)
Abs(a) == IF a < 0 THEN -a ELSE a

\* F(v) with v worked out once, as `const name = v' does before the statements
\* that use the name
Let(v, F(_)) == CHOOSE r \in {F(c) : c \in {v}} : TRUE

RECURSIVE GCD(_, _)
GCD(a, b) == IF b = 0 THEN a ELSE GCD(b, a % b)

\* the fraction n/d (d > 0) in lowest terms
Rat(n, d) == LET g == GCD(Abs(n), d) IN [n |-> n \div g, d |-> d \div g]

RatAdd(p, q) == Rat(p.n * q.d + q.n * p.d, p.d * q.d)
RatMul(p, q) == Rat(p.n * q.n, p.d * q.d)
RatOne == Rat(1, 1)
RatSub(p, q) == RatAdd(p, Rat(-q.n, q.d))

\* elapsed < frameInterval, for elapsed in whole ms: elapsed < 1000 / targetFPS
BelowFrameInterval(elapsed) == elapsed * targetFPS < 1000

(***************************************************************************)
(* Landmark sets: sequences of points [x, y, z], z possibly undefined.     *)
(***************************************************************************)
Pt(xn, xd, yn, yd, z) == [x |-> Rat(xn, xd), y |-> Rat(yn, yd), z |-> z]

\* a heavier smoothing: alpha = 0.8
smoothingAlpha_Heavier == Rat(4, 5)

\* this.smoothingAlpha = 0.75
smoothingAlpha == Rat(3, 4)

\* the EMA with the weights of the state and of the raw value exchanged
EmaMix_RawWeighted(alpha, prev, cur) ==
    RatAdd(RatMul(alpha, cur), RatMul(RatSub(RatOne, alpha), prev))

\* the EMA with the weight alpha on both sides
EmaMix_Unnormalised(alpha, prev, cur) ==
    RatAdd(RatMul(alpha, prev), RatMul(alpha, cur))

\* One component of the EMA (lines 1060-1064).
EmaMix(alpha, prev, cur) ==
    RatAdd(RatMul(alpha, prev), RatMul(RatSub(RatOne, alpha), cur))

EmaPoint(alpha, e, l) ==
    [x |-> EmaMix(alpha, e.x, l.x),
     y |-> EmaMix(alpha, e.y, l.y),
     z |-> IF e.z # Undefined /\ l.z # Undefined
              THEN EmaMix(alpha, e.z, l.z)
              ELSE l.z]

\* smoothLandmarks that drops the held pose when the detector finds nothing
smoothLandmarks_DropsPose(s, newLandmarks) ==
    IF newLandmarks = NULL \/ Len(newLandmarks) = 0
    THEN [threw |-> FALSE,
          ret |-> NULL,
          emaLandmarks |-> NULL,
          landmarkHistory |-> s.landmarkHistory,
          lastLandmarks |-> s.lastLandmarks]
    ELSE IF s.emaLandmarks = NULL
    THEN [threw |-> FALSE,
          ret |-> newLandmarks,
          emaLandmarks |-> newLandmarks,
          landmarkHistory |-> s.landmarkHistory,
          lastLandmarks |-> s.lastLandmarks]
    ELSE IF Len(newLandmarks) > Len(s.emaLandmarks)
    THEN [threw |-> TRUE,
          ret |-> NULL,
          emaLandmarks |-> s.emaLandmarks,
          landmarkHistory |-> s.landmarkHistory,
          lastLandmarks |-> s.lastLandmarks]
    ELSE LET smoothed == [i \in 1..Len(newLandmarks) |->
                            EmaPoint(smoothingAlpha, s.emaLandmarks[i], newLandmarks[i])]
             pushed == Append(s.landmarkHistory, smoothed)
         IN [threw |-> FALSE,
             ret |-> smoothed,
             emaLandmarks |-> smoothed,
             landmarkHistory |-> IF Len(pushed) > maxHistoryFrames
                                    THEN Tail(pushed) ELSE pushed,
             lastLandmarks |-> s.lastLandmarks]

\* smoothLandmarks(newLandmarks) on the object state s: the returned value, the
\* fields emaLandmarks, landmarkHistory and lastLandmarks after the call, and
\* whether it threw (reading this.emaLandmarks[i].x past the end of the EMA
\* state is a TypeError).
smoothLandmarks(s, newLandmarks) ==
    IF newLandmarks = NULL \/ Len(newLandmarks) = 0
    THEN [threw |-> FALSE,
          ret |-> IF s.lastLandmarks # NULL THEN s.lastLandmarks ELSE s.emaLandmarks,
          emaLandmarks |-> s.emaLandmarks,
          landmarkHistory |-> s.landmarkHistory,
          lastLandmarks |-> s.lastLandmarks]
    ELSE IF s.emaLandmarks = NULL
    THEN [threw |-> FALSE,
          ret |-> newLandmarks,
          emaLandmarks |-> newLandmarks,
          landmarkHistory |-> s.landmarkHistory,
          lastLandmarks |-> s.lastLandmarks]
    ELSE IF Len(newLandmarks) > Len(s.emaLandmarks)
    THEN [threw |-> TRUE,
          ret |-> NULL,
          emaLandmarks |-> s.emaLandmarks,
          landmarkHistory |-> s.landmarkHistory,
          lastLandmarks |-> s.lastLandmarks]
    ELSE LET smoothed == [i \in 1..Len(newLandmarks) |->
                            EmaPoint(smoothingAlpha, s.emaLandmarks[i], newLandmarks[i])]
             pushed == Append(s.landmarkHistory, smoothed)
         IN [threw |-> FALSE,
             ret |-> smoothed,
             emaLandmarks |-> smoothed,
             landmarkHistory |-> IF Len(pushed) > maxHistoryFrames
                                    THEN Tail(pushed) ELSE pushed,
             lastLandmarks |-> s.lastLandmarks]

(***************************************************************************)
(* The object and its browser as one record, so that a handler's calls     *)
(* compose.                                                                *)
(***************************************************************************)
Cur ==
    [faceMesh |-> faceMesh, camera |-> camera, mediaPipeReady |-> mediaPipeReady,
     isProcessing |-> isProcessing, animationFrame |-> animationFrame,
     fallbackActive |-> fallbackActive, renderLoopActive |-> renderLoopActive,
     lastLandmarks |-> lastLandmarks, landmarkHistory |-> landmarkHistory,
     emaLandmarks |-> emaLandmarks, lastProcessedSkin |-> lastProcessedSkin,
     lastFrameTime |-> lastFrameTime, faceMeshFailCount |-> faceMeshFailCount,
     videoReady |-> videoReady, now |-> now, haveCurrentData |-> haveCurrentData,
     hasWidth |-> hasWidth, hasHeight |-> hasHeight, rafQueue |-> rafQueue,
     canvas |-> canvas,
     inFlight |-> inFlight, consecutiveRejects |-> consecutiveRejects,
     loopStarted |-> loopStarted, degraded |-> degraded,
     inLoop |-> FALSE, requested |-> {},
     created |-> [faceMesh |-> 0, camera |-> 0]]

CommitObject(s) ==
    /\ faceMesh' = s.faceMesh
    /\ camera' = s.camera
    /\ mediaPipeReady' = s.mediaPipeReady
    /\ isProcessing' = s.isProcessing
    /\ animationFrame' = s.animationFrame
    /\ fallbackActive' = s.fallbackActive
    /\ renderLoopActive' = s.renderLoopActive
    /\ lastLandmarks' = s.lastLandmarks
    /\ landmarkHistory' = s.landmarkHistory
    /\ emaLandmarks' = s.emaLandmarks
    /\ lastProcessedSkin' = s.lastProcessedSkin
    /\ lastFrameTime' = s.lastFrameTime
    /\ faceMeshFailCount' = s.faceMeshFailCount
    /\ videoReady' = s.videoReady
    /\ now' = s.now
    /\ haveCurrentData' = s.haveCurrentData
    /\ hasWidth' = s.hasWidth
    /\ hasHeight' = s.hasHeight
    /\ rafQueue' = s.rafQueue
    /\ canvas' = s.canvas
    /\ inFlight' = s.inFlight
    /\ consecutiveRejects' = s.consecutiveRejects
    /\ loopStarted' = s.loopStarted
    /\ degraded' = s.degraded

\* a step of the scheduler model: no pixel is looked at, no method watched
Commit(s) == CommitObject(s) /\ UNCHANGED << frame, out, smoothCall, renderClock, sendClock, page >>

(***************************************************************************)
(* requestAnimationFrame / cancelAnimationFrame.  A handle is fresh: it is *)
(* no pending callback's and not the one this.animationFrame still holds.  *)
(* Every call site stores the handle in this.animationFrame.               *)
(***************************************************************************)
Handles(s) == {cb.id : cb \in s.rafQueue}

FreshHandle(s) ==
    CHOOSE h \in 1..(Cardinality(s.rafQueue) + 2) :
        /\ h \notin Handles(s)
        /\ h # s.animationFrame
        /\ \A g \in 1..(h - 1) : g \in Handles(s) \/ g = s.animationFrame

\* this.animationFrame = requestAnimationFrame(fn); last is the value of the
\* callback's closure variable lastFrameTime (drawFrame of startImmediateFallback).
\* s.requested: the handles the running handler has requested so far.
requestAnimationFrame(s, fn, last) ==
    LET h == FreshHandle(s)
    IN [s EXCEPT !.rafQueue = @ \cup {[id |-> h, fn |-> fn, last |-> last]},
                 !.animationFrame = h,
                 !.requested = @ \cup {h}]

cancelAnimationFrame(s, h) ==
    [s EXCEPT !.rafQueue = {cb \in @ : cb.id # h},
              !.requested = @ \ {h}]

(***************************************************************************)
(* Painting.  The canvas is abstracted to the pipeline that painted it,    *)
(* with what held when it painted: whether a render-loop callback was      *)
(* running (s.inLoop), whether the object was tracking, and whether the    *)
(* landmarks it was given are this.lastLandmarks.                          *)
(***************************************************************************)
Tracking(s) == ~s.fallbackActive /\ s.lastLandmarks # NULL

Paint(s, pipeline, landmarks) ==
    [s EXCEPT !.canvas = [pipeline |-> pipeline,
                          byLoop |-> s.inLoop,
                          tracking |-> Tracking(s),
                          usesLast |-> landmarks = s.lastLandmarks]]

\* applyUVFilterToEntireFrame (lines 798-873), as the scheduler sees it
applyUVFilterToEntireFrame(s) ==
    IF ~s.haveCurrentData THEN s ELSE Paint(s, "whole", NULL)

\* drawRawVideoFrame (lines 953-1013), as the scheduler sees it
drawRawVideoFrame(s) == Paint(s, "raw", NULL)

\* drawInvertedFrame (lines 1158-1186), as the scheduler sees it
drawInvertedFrame(s) ==
    IF ~s.haveCurrentData THEN s ELSE Paint(s, "inverted", NULL)

\* applyUVFilter(landmarks) (lines 1187-1387), as the scheduler sees it: the
\* masked frame is painted and the processed skin buffer of this frame is kept,
\* blended with the buffer of the frame before when there is one (STEP 8).
\* Of null landmarks createPersonMask throws reading landmarks.length (line
\* 1434), and the catch (lines 1379-1386) calls drawInvertedFrame.
applyUVFilterSched(s, landmarks) ==
    IF ~s.haveCurrentData
    THEN s
    ELSE IF landmarks = NULL
    THEN drawInvertedFrame(s)
    ELSE [Paint(s, "masked", landmarks) EXCEPT
            !.lastProcessedSkin = IF @ = NoBuffer THEN "fresh" ELSE "blended"]

(***************************************************************************)
(* The render loops.                                                       *)
(***************************************************************************)
\* drawFrame of startImmediateFallback (lines 757-792); last is its closure
\* variable lastFrameTime
drawFrame(s, last) ==
    IF BelowFrameInterval(s.now - last)
    THEN requestAnimationFrame(s, "drawFrame", last)
    ELSE LET s1 == IF s.haveCurrentData /\ s.hasWidth /\ s.hasHeight
                      THEN applyUVFilterToEntireFrame(s)
                      ELSE s
         IN requestAnimationFrame(s1, "drawFrame", s.now)

\* startImmediateFallback (lines 736-796)
startImmediateFallback(s) ==
    LET s1 == IF s.animationFrame # NoHandle
                 THEN [cancelAnimationFrame(s, s.animationFrame)
                          EXCEPT !.animationFrame = NoHandle]
                 ELSE s
    IN IF s1.renderLoopActive
       THEN s1
       ELSE drawFrame([s1 EXCEPT !.fallbackActive = TRUE,
                                 !.renderLoopActive = TRUE,
                                 !.loopStarted = TRUE], 0)

\* drawFrame of activateHardFallback (lines 919-947): line 927 tests the
\* readyState and video.videoWidth > 0, and not the height
hardDrawFrame(s) ==
    LET s1 == IF s.haveCurrentData /\ s.hasWidth
                 THEN drawRawVideoFrame(s)
                 ELSE s
    IN requestAnimationFrame(s1, "hardDrawFrame", 0)

\* activateHardFallback that gives up the held pose
activateHardFallback_ReleasesPose(s, stopMediaPipeOnly) ==
    LET s1 == IF s.animationFrame # NoHandle
                 THEN [cancelAnimationFrame(s, s.animationFrame)
                          EXCEPT !.animationFrame = NoHandle]
                 ELSE s
        s2 == [s1 EXCEPT !.fallbackActive = TRUE,
                         !.renderLoopActive = TRUE,
                         !.loopStarted = TRUE,
                         !.lastLandmarks = NULL,
                         !.emaLandmarks = NULL]
        s3 == IF s2.camera # "none" /\ stopMediaPipeOnly
                 THEN [s2 EXCEPT !.camera = "stopped"]
                 ELSE s2
    IN hardDrawFrame(s3)

\* activateHardFallback that starts its loop beside the one that runs
activateHardFallback_BesideLoop(s, stopMediaPipeOnly) ==
    LET s2 == [s EXCEPT !.fallbackActive = TRUE,
                        !.renderLoopActive = TRUE,
                        !.loopStarted = TRUE]
        s3 == IF s2.camera # "none" /\ stopMediaPipeOnly
                 THEN [s2 EXCEPT !.camera = "stopped"]
                 ELSE s2
    IN hardDrawFrame(s3)

\* activateHardFallback(reason, stopMediaPipeOnly) (lines 875-951)
activateHardFallback(s, stopMediaPipeOnly) ==
    LET s1 == IF s.animationFrame # NoHandle
                 THEN [cancelAnimationFrame(s, s.animationFrame)
                          EXCEPT !.animationFrame = NoHandle]
                 ELSE s
        s2 == [s1 EXCEPT !.fallbackActive = TRUE,
                         !.renderLoopActive = TRUE,
                         !.loopStarted = TRUE]
        s3 == IF s2.camera # "none" /\ stopMediaPipeOnly
                 THEN [s2 EXCEPT !.camera = "stopped"]
                 ELSE s2
    IN hardDrawFrame(s3)

\* drawUVFrame of processFrame (lines 1122-1140)
drawUVFrame(s) ==
    IF s.fallbackActive
    THEN [s EXCEPT !.renderLoopActive = FALSE]
    ELSE IF s.lastLandmarks # NULL /\ s.haveCurrentData
    THEN requestAnimationFrame(applyUVFilterSched(s, s.lastLandmarks), "drawUVFrame", 0)
    ELSE IF s.lastLandmarks = NULL
    THEN startImmediateFallback([s EXCEPT !.fallbackActive = TRUE,
                                          !.renderLoopActive = FALSE])
    ELSE requestAnimationFrame(s, "drawUVFrame", 0)

\* processFrame(results) (lines 1080-1156); results is NULL (no face: an empty
\* multiFaceLandmarks) or the raw landmark set of the one face
processFrame(s, results) ==
    IF results = NULL
    THEN IF s.lastLandmarks # NULL
         THEN s
         ELSE IF ~s.fallbackActive
         THEN startImmediateFallback([s EXCEPT !.fallbackActive = TRUE])
         ELSE s
    ELSE LET s1 == [s EXCEPT !.fallbackActive = FALSE]
             sm == smoothLandmarks(s1, results)
         IN IF sm.threw
            THEN \* catch (lines 1144-1155)
                 IF ~s1.renderLoopActive
                 THEN startImmediateFallback([s1 EXCEPT !.fallbackActive = TRUE])
                 ELSE s1
            ELSE LET s2 == [s1 EXCEPT !.emaLandmarks = sm.emaLandmarks,
                                      !.landmarkHistory = sm.landmarkHistory,
                                      !.lastLandmarks = sm.ret]
                     s3 == applyUVFilterSched(s2, sm.ret)
                 IN IF ~s3.renderLoopActive
                    THEN LET s4 == [s3 EXCEPT !.renderLoopActive = TRUE,
                                              !.loopStarted = TRUE]
                             s5 == IF s4.animationFrame # NoHandle
                                      THEN cancelAnimationFrame(s4, s4.animationFrame)
                                      ELSE s4
                         IN requestAnimationFrame(s5, "drawUVFrame", 0)
                    ELSE s3

\* onResults that gives up the pose when the detector finds no face
onResults_DropsPose(s, results) ==
    IF results # NULL
    THEN processFrame([s EXCEPT !.fallbackActive = FALSE], results)
    ELSE processFrame([s EXCEPT !.lastLandmarks = NULL], results)

\* onResults as a latching detector would have it: results are ignored once the
\* failure threshold has forced fallback
onResults_Latched(s, results) ==
    IF results # NULL /\ ~(s.degraded /\ s.fallbackActive)
    THEN processFrame([s EXCEPT !.fallbackActive = FALSE], results)
    ELSE s

\* the onResults handler of setupFaceMesh (lines 628-656)
onResults(s, results) ==
    IF results # NULL
    THEN processFrame([s EXCEPT !.fallbackActive = FALSE], results)
    ELSE s

\* setupFaceMesh (lines 578-734).  FaceMeshDefined and CameraDefined: whether
\* the MediaPipe globals are loaded; ctorThrows: whether new FaceMesh() throws.
\* s.created: the FaceMesh and Camera instances the running handler has
\* constructed.
\* setupFaceMesh without its test of this.faceMesh
setupFaceMesh_NoGuard(s, FaceMeshDefined, CameraDefined, ctorThrows) ==
    IF ~FaceMeshDefined
    THEN s
    ELSE IF ctorThrows
    THEN activateHardFallback(s, FALSE)
    ELSE LET s1 == [s EXCEPT !.faceMesh = TRUE, !.created.faceMesh = @ + 1]
         IN IF CameraDefined
            THEN IF s1.hasWidth /\ s1.hasHeight
                 THEN [s1 EXCEPT !.camera = "running", !.mediaPipeReady = TRUE,
                                 !.created.camera = @ + 1]
                 ELSE activateHardFallback(s1, FALSE)
            ELSE activateHardFallback(s1, FALSE)

setupFaceMesh(s, FaceMeshDefined, CameraDefined, ctorThrows) ==
    IF s.faceMesh
    THEN s
    ELSE IF ~FaceMeshDefined
    THEN s
    ELSE IF ctorThrows
    THEN activateHardFallback(s, FALSE)
    ELSE LET s1 == [s EXCEPT !.faceMesh = TRUE, !.created.faceMesh = @ + 1]
         IN IF CameraDefined
            THEN IF s1.hasWidth /\ s1.hasHeight
                 THEN [s1 EXCEPT !.camera = "running", !.mediaPipeReady = TRUE,
                                 !.created.camera = @ + 1]
                 ELSE activateHardFallback(s1, FALSE)
            ELSE activateHardFallback(s1, FALSE)

(***************************************************************************)
(* The camera utility's onFrame callback (lines 671-705), in two steps:    *)
(* up to the await of faceMesh.send(), and from the settled call on.       *)
(***************************************************************************)
\* onFrame without the test of the elapsed time
onFrame_NoThrottle(s) ==
    LET s1 == [s EXCEPT !.lastFrameTime = s.now]
    IN IF ~s1.isProcessing /\ s1.faceMesh /\ s1.haveCurrentData
       THEN [s1 EXCEPT !.isProcessing = TRUE, !.inFlight = @ + 1]
       ELSE s1

\* onFrame without the in-flight guard
onFrame_NoGuard(s) ==
    IF ~BelowFrameInterval(s.now - s.lastFrameTime)
    THEN LET s1 == [s EXCEPT !.lastFrameTime = s.now]
         IN IF s1.faceMesh /\ s1.haveCurrentData
            THEN [s1 EXCEPT !.isProcessing = TRUE, !.inFlight = @ + 1]
            ELSE s1
    ELSE s

\* onFrame up to `await this.faceMesh.send(...)'
onFrame(s) ==
    IF ~BelowFrameInterval(s.now - s.lastFrameTime)
    THEN LET s1 == [s EXCEPT !.lastFrameTime = s.now]
         IN IF ~s1.isProcessing /\ s1.faceMesh /\ s1.haveCurrentData
            THEN [s1 EXCEPT !.isProcessing = TRUE, !.inFlight = @ + 1]
            ELSE s1
    ELSE s

\* send() resolved: the detector has called the onResults handler, then lines
\* 680-685 and 702 run
sendResolved(s, results) ==
    [onResults(s, results) EXCEPT !.faceMeshFailCount = 0,
                                  !.isProcessing = FALSE,
                                  !.inFlight = @ - 1,
                                  !.consecutiveRejects = 0]

\* sendRejected with the threshold reached two failures early
sendRejected_Early(s) ==
    LET s1 == [s EXCEPT !.faceMeshFailCount = @ + 1]
        s2 == IF s1.faceMeshFailCount >= FailThreshold - 2
                 THEN [s1 EXCEPT !.fallbackActive = TRUE, !.degraded = TRUE]
                 ELSE s1
    IN [s2 EXCEPT !.isProcessing = FALSE,
                  !.inFlight = @ - 1,
                  !.consecutiveRejects = @ + 1]

\* send() rejected: the catch of lines 686-701, then line 702
sendRejected(s) ==
    LET s1 == [s EXCEPT !.faceMeshFailCount = @ + 1]
        s2 == IF s1.faceMeshFailCount >= FailThreshold
                 THEN [s1 EXCEPT !.fallbackActive = TRUE, !.degraded = TRUE]
                 ELSE s1
    IN [s2 EXCEPT !.isProcessing = FALSE,
                  !.inFlight = @ - 1,
                  !.consecutiveRejects = @ + 1]

\* the loadedmetadata listener (lines 456-479); widthPositive and
\* heightPositive: video.videoWidth > 0 and video.videoHeight > 0 as the video
\* reports them
onLoadedMetadata(s, widthPositive, heightPositive) ==
    LET s0 == [s EXCEPT !.hasWidth = widthPositive, !.hasHeight = heightPositive]
    IN IF widthPositive /\ heightPositive
       THEN LET s1 == [s0 EXCEPT !.videoReady = TRUE]
            IN IF ~s1.renderLoopActive THEN startImmediateFallback(s1) ELSE s1
       ELSE activateHardFallback(s0, FALSE)

\* the error listener of the video (lines 501-509)
onVideoError(s) == activateHardFallback(s, FALSE)

\* a pending requestAnimationFrame callback runs
runCallback(s, cb) ==
    LET s0 == [s EXCEPT !.rafQueue = @ \ {cb}, !.inLoop = TRUE]
    IN CASE cb.fn = "drawFrame" -> drawFrame(s0, cb.last)
         [] cb.fn = "hardDrawFrame" -> hardDrawFrame(s0)
         [] cb.fn = "drawUVFrame" -> drawUVFrame(s0)

(***************************************************************************)
(* The detector's results in the scheduler model: no face (NULL) or one of *)
(* these raw landmark sets.                                                *)
(***************************************************************************)
RawA == << Pt(1, 4, 1, 2, Rat(0, 1)) >>
RawB == << Pt(3, 4, 1, 4, Undefined), Pt(1, 4, 3, 4, Rat(1, 8)) >>
RawSets == {RawA, RawB}

(***************************************************************************)
(* Actions of the scheduler model.                                         *)
(***************************************************************************)
\* the fields the constructor sets (lines 72-120), and a video without a stream
Constructed ==
    /\ faceMesh = FALSE
    /\ camera = "none"
    /\ mediaPipeReady = FALSE
    /\ isProcessing = FALSE
    /\ animationFrame = NoHandle
    /\ fallbackActive = FALSE
    /\ renderLoopActive = FALSE
    /\ lastLandmarks = NULL
    /\ landmarkHistory = << >>
    /\ emaLandmarks = NULL
    /\ lastProcessedSkin = NoBuffer
    /\ lastFrameTime = 0
    /\ faceMeshFailCount = 0
    /\ videoReady = FALSE
    /\ now = InitDelayMs
    /\ haveCurrentData = FALSE
    /\ hasWidth = FALSE
    /\ hasHeight = FALSE
    /\ rafQueue = {}
    /\ canvas = [pipeline |-> "none", byLoop |-> FALSE, tracking |-> FALSE,
                 usesLast |-> FALSE]
    /\ inFlight = 0
    /\ consecutiveRejects = 0
    /\ loopStarted = FALSE
    /\ degraded = FALSE

Init ==
    /\ Constructed
    /\ frame = NoFrame
    /\ out = NotApplied
    /\ smoothCall = NoCall
    /\ renderClock = NoRender
    /\ sendClock = NoSend
    /\ page = NoPage

\* a video has both of its dimensions once its metadata are read, and neither
\* before
LoadedMetadata == \E valid \in BOOLEAN : Commit(onLoadedMetadata(Cur, valid, valid))

VideoError == Commit(onVideoError(Cur))

\* the video has its first frame: readyState reaches HAVE_CURRENT_DATA.  The
\* readyState of a live camera stream does not fall again in this model.
VideoHasData ==
    /\ ~haveCurrentData
    /\ Commit([Cur EXCEPT !.haveCurrentData = TRUE])

CallStartImmediateFallback == Commit(startImmediateFallback(Cur))

CallActivateHardFallback ==
    \E stopMediaPipeOnly \in BOOLEAN :
        Commit(activateHardFallback(Cur, stopMediaPipeOnly))

CallSetupFaceMesh ==
    \E FaceMeshDefined \in BOOLEAN, CameraDefined \in BOOLEAN, ctorThrows \in BOOLEAN :
        Commit(setupFaceMesh(Cur, FaceMeshDefined, CameraDefined, ctorThrows))

CameraFrame ==
    /\ camera = "running"
    /\ Commit(onFrame(Cur))

SendResolvesWith(results) ==
    /\ inFlight > 0
    /\ results # NULL => Len(landmarkHistory) < MaxSmoothings
    /\ Commit(sendResolved(Cur, results))

SendResolves == \E results \in {NULL} \cup RawSets : SendResolvesWith(results)

SendRejects ==
    /\ inFlight > 0
    /\ faceMeshFailCount < MaxRejects
    /\ Commit(sendRejected(Cur))

AnimationFrame == \E cb \in rafQueue : Commit(runCallback(Cur, cb))

\* the time between two display refreshes, in whole ms
RefreshMs == {25}

\* A timestamp after the clock's origin has moved forward by d.  The handlers
\* read the clock only to subtract a stored timestamp from it, so the model keeps
\* `now' in place and moves the stored timestamps back instead; a timestamp that
\* reaches the origin stays there: it is then older than every interval the
\* code compares it with.
Rebase(t, d) == IF t > d THEN t - d ELSE 0

\* d ms pass
AdvanceTime ==
    \E d \in RefreshMs :
        Commit([Cur EXCEPT !.lastFrameTime = Rebase(@, d),
                           !.rafQueue = {[cb EXCEPT !.last = Rebase(@, d)] : cb \in @}])

Next ==
    \/ LoadedMetadata
    \/ VideoError
    \/ VideoHasData
    \/ CallStartImmediateFallback
    \/ CallActivateHardFallback
    \/ CallSetupFaceMesh
    \/ CameraFrame
    \/ SendResolves
    \/ SendRejects
    \/ AnimationFrame
    \/ AdvanceTime

Spec == Init /\ [][Next]_vars

(***************************************************************************)
(* The pixel pipeline of applyUVFilter (lines 1187-1387).                  *)
(*                                                                         *)
(* Every array of the pipeline (a mask, a pixel buffer) is computed by a   *)
(* loop whose iterations do not depend on each other, so the model         *)
(* computes the element of one pixel (x, y): the operators below take the  *)
(* pixel as two more parameters and return array[y * width + x].           *)
(*                                                                         *)
(* Numbers.  Coordinates are exact fractions, a distance is the square     *)
(* root of a fraction, kept as that fraction, and a mask value is          *)
(* 1 - sqrt(t) for a fraction t, kept as t; a mask value is compared with  *)
(* a threshold as the Float32Array element that holds it is (MaskAbove).   *)
(* The colours of STEP 6, of applyUVLUT, of STEP 8 and of the whole-frame  *)
(* filter are doubles [n, d, by], each operation rounded to the nearest    *)
(* double.  The S-curve is computed on fractions: its exact value is never *)
(* half-way between two whole numbers, and no rounding of a double moves   *)
(* it across one.  Storing into a Uint8ClampedArray rounds to the nearest  *)
(* integer, ties to even, and clamps to 0..255.                            *)
(***************************************************************************)
RatInt(k) == [n |-> k, d |-> 1]
RatZero == RatInt(0)

\* p / q, q # 0
RatDiv(p, q) ==
    IF q.n > 0 THEN Rat(p.n * q.d, p.d * q.n)
               ELSE Rat(-(p.n * q.d), p.d * (-q.n))

RatLess(p, q) == p.n * q.d < q.n * p.d
RatLeq(p, q) == p.n * q.d <= q.n * p.d
RatMax(p, q) == IF RatLess(p, q) THEN q ELSE p
RatMin(p, q) == IF RatLess(q, p) THEN q ELSE p

\* Math.max(...) and Math.min(...) of the fractions of a non-empty sequence
SeqMax(qs) ==
    CHOOSE q \in {qs[k] : k \in 1..Len(qs)} : \A k \in 1..Len(qs) : RatLeq(qs[k], q)

SeqMin(qs) ==
    CHOOSE q \in {qs[k] : k \in 1..Len(qs)} : \A k \in 1..Len(qs) : RatLeq(q, qs[k])

\* Math.sqrt(q): the real sqrt(q), q >= 0
Sqrt(q) == [sq |-> q]
\* Infinity, as a distance: no fraction is above it
Infinity == [sq |-> [n |-> 1, d |-> 0]]
\* a < b for two distances
DistLess(a, b) == RatLess(a.sq, b.sq)
\* dist < c for a distance and an integer c >= 0
DistBelow(dist, c) == RatLess(dist.sq, RatInt(c * c))

\* Mask values: [t, gauss] is the real 1 - sqrt(t); gauss marks a value the
\* Gaussian feather of applyFeatherToMask has been applied to.
MaskOne == [t |-> RatZero, gauss |-> FALSE]
MaskZero == [t |-> RatOne, gauss |-> FALSE]
\* 1 - dist / R, R a positive integer
OneMinusOver(dist, R) == [t |-> RatDiv(dist.sq, RatInt(R * R)), gauss |-> FALSE]
\* Math.max(0, m)
MaxZero(m) == IF RatLess(RatOne, m.t) THEN MaskZero ELSE m
\* m > 0 and m < 1
MaskPositive(m) == RatLess(m.t, RatOne)
MaskBelowOne(m) == RatLess(RatZero, m.t)
\* 0 <= m and m <= 1
MaskInUnit(m) == RatLeq(RatZero, m.t) /\ RatLeq(m.t, RatOne)

\* the value a Uint8ClampedArray keeps of the fraction q
ToUint8Clamp(q) ==
    LET fl == q.n \div q.d
        twice == 2 * (q.n - fl * q.d)
        nearest == IF twice < q.d THEN fl
                   ELSE IF twice > q.d THEN fl + 1
                   ELSE IF fl % 2 = 0 THEN fl ELSE fl + 1
    IN IF nearest < 0 THEN 0 ELSE IF nearest > 255 THEN 255 ELSE nearest

(***************************************************************************)
(* Doubles.  The JavaScript numbers of the pixel arithmetic are IEEE-754   *)
(* doubles.  A double is written [n, d, by]: n/d is the fraction exact     *)
(* arithmetic gives and `by' the operation that made the double, with its  *)
(* operands.  The double itself is n/d + Err * 2^-53, Err the rounding     *)
(* error the operations have left: every operation works out the exact     *)
(* result and rounds it to the nearest double, ties to even.  Err is       *)
(* worked out where a comparison or a store depends on it.                 *)
(***************************************************************************)
\* the e with 2^e <= n/d < 2^(e+1), n/d > 0
RECURSIVE Exponent(_)
Exponent(q) ==
    IF q.n >= 2 * q.d THEN 1 + Exponent([n |-> q.n, d |-> 2 * q.d])
    ELSE IF q.n < q.d THEN Exponent([n |-> 2 * q.n, d |-> q.d]) - 1
    ELSE 0

\* 2^e as a fraction
Pow2(e) == IF e >= 0 THEN RatInt(2^e) ELSE [n |-> 1, d |-> 2^(-e)]

\* 2^k mod m, by repeated squaring
RECURSIVE PowMod(_, _)
PowMod(k, m) ==
    IF k = 0 THEN 1 % m
    ELSE Let(PowMod(k \div 2, m), LAMBDA half :
             (((half * half) % m) * (IF k % 2 = 1 THEN 2 ELSE 1)) % m)

\* (n * 2^k) mod m
TwoPowMod(n, k, m) == ((n % m) * PowMod(k, m)) % m

\* the sign of a fraction
Sign(q) == IF q.n > 0 THEN 1 ELSE IF q.n < 0 THEN -1 ELSE 0

\* The error of the double nearest to q + rho * 2^-53 + second * (something
\* below any double's spacing), for a fraction q > 0: the double less q, in
\* units of 2^-53.  The doubles about q are the multiples of 2^(ex-52); frac is
\* the part of q above the multiple below it, in that unit, and phi the same
\* with the error brought along.
RoundPositive(q, rho, second) ==
    Let(Exponent(q), LAMBDA e0 :
    Let(IF q = Pow2(e0) /\ (rho.n < 0 \/ (rho.n = 0 /\ second < 0)) THEN e0 - 1 ELSE e0,
        LAMBDA ex :
    Let(TwoPowMod(q.n, 52 - ex, 2 * q.d), LAMBDA m2 :
    Let(Rat(m2 % q.d, q.d), LAMBDA frac :
    Let(RatAdd(frac, RatMul(rho, Pow2(-1 - ex))), LAMBDA phi :
    Let(phi.n \div phi.d, LAMBDA fl :
    Let(2 * (phi.n - fl * phi.d), LAMBDA twice :
    Let(IF \/ twice > phi.d
           \/ /\ twice = phi.d
              /\ (second > 0 \/ (second = 0 /\ (m2 \div q.d + fl) % 2 = 1))
        THEN fl + 1 ELSE fl, LAMBDA rounded :
        RatMul(RatAdd(RatInt(rounded), [n |-> -frac.n, d |-> frac.d]), Pow2(ex + 1))))))))))

\* the same for any fraction q: the double nearest to -q is the nearest to q, negated
RoundToDouble(q, rho, second) ==
    IF q.n = 0 THEN rho
    ELSE Let(Sign(q), LAMBDA sg :
         Let(RoundPositive([n |-> sg * q.n, d |-> q.d], [n |-> sg * rho.n, d |-> rho.d],
                           sg * second),
             LAMBDA e : [n |-> sg * e.n, d |-> e.d]))

\* the whole number k, and the double of the decimal literal p/s
DblInt(k) == [n |-> k, d |-> 1, by |-> << "int" >>]
DblConst(p, s) == Let(Rat(p, s), LAMBDA q : [n |-> q.n, d |-> q.d, by |-> << "literal" >>])

\* a * b, a + b, a - b of two doubles
DblMul(a, b) ==
    Let(RatMul(a, b), LAMBDA q : [n |-> q.n, d |-> q.d, by |-> << "*", a, b >>])
DblAdd(a, b) ==
    Let(RatAdd(a, b), LAMBDA q : [n |-> q.n, d |-> q.d, by |-> << "+", a, b >>])
DblSub(a, b) ==
    Let(RatSub(a, b), LAMBDA q : [n |-> q.n, d |-> q.d, by |-> << "-", a, b >>])

\* the rounding error of the double x, in units of 2^-53: the error its
\* operands bring (rho, and for a product the sign of the product of the two
\* errors), and the rounding of the operation
RECURSIVE Err(_)
Err(x) ==
    IF x.by[1] = "int" THEN RatZero
    ELSE Let(IF x.by[1] = "literal" THEN << RatZero, RatZero >>
             ELSE << Err(x.by[2]), Err(x.by[3]) >>, LAMBDA e :
         Let(CASE x.by[1] = "literal" -> << RatZero, 0 >>
               [] x.by[1] = "*" -> << RatAdd(RatMul(x.by[2], e[2]), RatMul(x.by[3], e[1])),
                                      Sign(e[1]) * Sign(e[2]) >>
               [] x.by[1] = "+" -> << RatAdd(e[1], e[2]), 0 >>
               [] x.by[1] = "-" -> << RatAdd(e[1], [n |-> -e[2].n, d |-> e[2].d]), 0 >>,
             LAMBDA brought : RoundToDouble([n |-> x.n, d |-> x.d], brought[1], brought[2])))

\* a < b, Math.max(a, b), Math.min(a, b)
DblLess(a, b) ==
    \/ RatLess(a, b)
    \/ a.n * b.d = b.n * a.d /\ RatLess(Err(a), Err(b))
DblMax(a, b) == IF DblLess(a, b) THEN b ELSE a
DblMin(a, b) == IF DblLess(b, a) THEN b ELSE a

\* the value a Uint8ClampedArray keeps of the double x: the nearest whole
\* number, ties to even; of an n/d half-way between two whole numbers the
\* rounding error says on which side the double lies
DoubleToUint8Clamp(x) ==
    Let(IF x.d = 2 THEN Sign(Err(x)) ELSE 0, LAMBDA side :
    Let(IF side > 0 THEN x.n \div x.d + 1
        ELSE IF side < 0 THEN x.n \div x.d
        ELSE ToUint8Clamp(x), LAMBDA nearest :
        IF nearest < 0 THEN 0 ELSE IF nearest > 255 THEN 255 ELSE nearest))

\* Whole numbers past 2^31, as their digits in base 2^15, the lowest first
Limb == 2^15

RECURSIVE Big(_)
Big(k) == IF k = 0 THEN << >> ELSE << k % Limb >> \o Big(k \div Limb)

\* a * s + carry, for a digit s
RECURSIVE BigTimes(_, _, _)
BigTimes(a, s, carry) ==
    IF a = << >> THEN Big(carry)
    ELSE Let(a[1] * s + carry, LAMBDA v :
             << v % Limb >> \o BigTimes(Tail(a), s, v \div Limb))

\* a + b + carry
RECURSIVE BigPlus(_, _, _)
BigPlus(a, b, carry) ==
    IF a = << >> /\ b = << >> THEN Big(carry)
    ELSE Let((IF a = << >> THEN 0 ELSE a[1]) + (IF b = << >> THEN 0 ELSE b[1]) + carry,
             LAMBDA v : << v % Limb >> \o BigPlus(IF a = << >> THEN a ELSE Tail(a),
                                                  IF b = << >> THEN b ELSE Tail(b),
                                                  v \div Limb))

\* a * b
RECURSIVE BigMul(_, _)
BigMul(a, b) ==
    IF b = << >> THEN << >>
    ELSE BigPlus(BigTimes(a, b[1], 0), << 0 >> \o BigMul(a, Tail(b)), 0)

\* a <= b, given whether the digits below these compare as lower <= lower
RECURSIVE BigLeq(_, _, _)
BigLeq(a, b, lowerLeq) ==
    IF a = << >> /\ b = << >> THEN lowerLeq
    ELSE Let(<< IF a = << >> THEN 0 ELSE a[1], IF b = << >> THEN 0 ELSE b[1] >>, LAMBDA v :
             BigLeq(IF a = << >> THEN a ELSE Tail(a), IF b = << >> THEN b ELSE Tail(b),
                    v[1] < v[2] \/ (v[1] = v[2] /\ lowerLeq)))

\* The masks are Float32Array (lines 1696, 1726, 1755, 1784): an element
\* keeps the float nearest to the double stored, and the comparisons read the
\* element.  ElementFrom(m, c, orEqual) is mask[idx] > c (orEqual: >= c) for
\* the literal c, 0 < c < 1, and the element that holds the real 1 - sqrt(t).
\* The least float above c (orEqual: not below c) is U * 2^(e-23); an element
\* is that float or a higher one when the value stored is above the middle
\* between that float and the float before it, P / 2^K.  So the comparison
\* holds when sqrt(t) <= 1 - P / 2^K = Q / 2^K.  The double stored is the real
\* but for the roundings of the code's arithmetic, far below 2^-(K+15): for a
\* real nearer than that to the middle the roundings decide, and the model
\* gives no value.
ElementFrom(m, c, orEqual) ==
    IF m.t.n = 0 THEN TRUE
    ELSE IF m.t.n >= m.t.d THEN FALSE
    ELSE Let(Exponent(c), LAMBDA e :
         Let((c.n * 2^(23 - e)) \div c.d
                + (IF orEqual /\ (c.n * 2^(23 - e)) % c.d = 0 THEN 0 ELSE 1), LAMBDA U :
         Let(IF U = 2^23 THEN [Q |-> 2^(25 - e) - (4 * U - 1), K |-> 25 - e]
                         ELSE [Q |-> 2^(24 - e) - (2 * U - 1), K |-> 24 - e], LAMBDA mid :
         Let([tn |-> [i \in 1..((2 * mid.K) \div 15 + 2) |-> 0]
                        \o BigTimes(Big(m.t.n), 2^((2 * mid.K) % 15), 0),
              below |-> << Limb - 1 >> \o Big(mid.Q - 1),
              above |-> << 1 >> \o Big(mid.Q)], LAMBDA side :
             IF BigLeq(side.tn, BigMul(BigMul(side.below, side.below), Big(m.t.d)), TRUE)
             THEN TRUE
             ELSE IF BigLeq(BigMul(BigMul(side.above, side.above), Big(m.t.d)), side.tn, TRUE)
             THEN FALSE
             ELSE CHOOSE undecided \in {} : TRUE))))

\* mask[idx] > c
MaskAbove(m, c) == ElementFrom(m, c, FALSE)

\* mask[idx] >= c, the negation of mask[idx] < c
MaskAtLeast(m, c) == ElementFrom(m, c, TRUE)

(***************************************************************************)
(* Landmark index lists (lines 219-253, 1424-1431, 1697).                  *)
(***************************************************************************)
eyeLandmarks ==
    [left |-> << 33, 7, 163, 144, 145, 153, 154, 155, 133, 173, 157, 158, 159,
                 160, 161, 246 >>,
     right |-> << 362, 382, 381, 380, 374, 373, 390, 249, 263, 466, 388, 387,
                  386, 385, 384, 398 >>]

eyebrowLandmarks ==
    [left |-> << 107, 55, 65, 52, 53, 46, 70, 63, 105, 66, 69 >>,
     right |-> << 336, 296, 334, 293, 300, 276, 283, 282, 295, 285, 336 >>]

lipLandmarks ==
    << 61, 146, 91, 181, 84, 17, 314, 405, 320, 307, 375, 321, 308, 324, 318,
       13, 82, 81, 80, 78, 95, 88, 178, 87, 14, 317, 402, 318, 324,
       12, 268, 271, 272, 407, 415, 310, 311, 312 >>

faceOutlineIndices ==
    << 172, 136, 150, 149, 176, 148, 152, 377, 400, 378, 379, 365, 397, 288,
       361, 323,
       234, 454, 227, 447,
       10, 151, 9 >>

hairlineIndices ==
    << 10, 151, 9, 107, 55, 65, 52, 53, 46, 336, 296, 334, 293, 300 >>

\* the lists of applyFeatherToMask (lines 1556, 1564, 1572)
jawlineIndices ==
    << 172, 136, 150, 149, 176, 148, 152, 377, 400, 378, 379, 365, 397, 288,
       361, 323 >>
featherHairlineIndices == << 10, 151, 9, 107, 55, 65, 52, 53, 46 >>
cheekIndices == << 234, 454, 227, 447 >>

\* getSkinLandmarks() (lines 219-231): 0..467 without the eye, eyebrow and lip
\* indices
skinLandmarks ==
    LET exclude == eyeLandmarks.left \o eyeLandmarks.right \o eyebrowLandmarks.left
                       \o eyebrowLandmarks.right \o lipLandmarks
    IN SelectSeq([k \in 1..468 |-> k - 1],
                 LAMBDA i : \A k \in 1..Len(exclude) : exclude[k] # i)

(***************************************************************************)
(* Geometry.                                                               *)
(***************************************************************************)
\* the filter with the last landmark of the list left out as well
keptIndices_DropsLast(indices, lms) == SelectSeq(indices, LAMBDA idx : idx + 1 < Len(lms))

\* indices.filter(idx => idx < landmarks.length)
keptIndices(indices, lms) == SelectSeq(indices, LAMBDA idx : idx < Len(lms))

\* indices.filter(idx => idx < landmarks.length)
\*        .map(idx => ({x: landmarks[idx].x * width, y: landmarks[idx].y * height}))
\* (JavaScript indices start at 0)
polygonPoints(indices, lms, w, h) ==
    LET kept == keptIndices(indices, lms)
    IN [k \in 1..Len(kept) |->
          [x |-> RatMul(lms[kept[k] + 1].x, RatInt(w)),
           y |-> RatMul(lms[kept[k] + 1].y, RatInt(h))]]

\* the test `intersect' of the ray-casting loops (lines 1544-1545, 1820-1821)
intersect(X, Y, pi, pj) ==
    /\ RatLess(Y, pi.y) # RatLess(Y, pj.y)
    /\ RatLess(X, RatAdd(RatDiv(RatMul(RatSub(pj.x, pi.x), RatSub(Y, pi.y)),
                                RatSub(pj.y, pi.y)),
                         pi.x))

\* isPointInPolygon(x, y, points) (lines 1538-1549): `inside' is toggled once
\* for every edge (points[i], points[j]), j the index before i, that intersects
isPointInPolygon(x, y, points) ==
    LET n == Len(points)
        toggles == {i \in 1..n :
                      intersect(RatInt(x), RatInt(y), points[i],
                                points[IF i = 1 THEN n ELSE i - 1])}
    IN Cardinality(toggles) % 2 = 1

\* pointToLineDistance(px, py, x1, y1, x2, y2) (lines 1838-1866)
pointToLineDistance(px, py, x1, y1, x2, y2) ==
    LET A == RatSub(px, x1)
        B == RatSub(py, y1)
        C == RatSub(x2, x1)
        D == RatSub(y2, y1)
        dot == RatAdd(RatMul(A, C), RatMul(B, D))
        lenSq == RatAdd(RatMul(C, C), RatMul(D, D))
    IN Let(IF lenSq # RatZero THEN RatDiv(dot, lenSq) ELSE RatInt(-1), LAMBDA param :
         LET xx == IF RatLess(param, RatZero) THEN x1
                   ELSE IF RatLess(RatOne, param) THEN x2
                   ELSE RatAdd(x1, RatMul(param, C))
             yy == IF RatLess(param, RatZero) THEN y1
                   ELSE IF RatLess(RatOne, param) THEN y2
                   ELSE RatAdd(y1, RatMul(param, D))
         IN Let(RatSub(px, xx), LAMBDA dx :
            Let(RatSub(py, yy), LAMBDA dy :
              Sqrt(RatAdd(RatMul(dx, dx), RatMul(dy, dy))))))

\* the loop of lines 1827-1833 (points not empty): minDist ends as the least
\* of the distances to the edges (points[i], points[(i + 1) % n])
minDistToEdges(X, Y, points) ==
    Let({pointToLineDistance(X, Y, points[i].x, points[i].y,
                             points[(i % Len(points)) + 1].x,
                             points[(i % Len(points)) + 1].y) : i \in 1..Len(points)},
        LAMBDA dists : CHOOSE dist \in dists : \A other \in dists : ~DistLess(other, dist))

\* distanceToPolygon(x, y, points) (lines 1812-1836)
distanceToPolygon(x, y, points) ==
    IF Len(points) = 0 THEN Infinity
    ELSE IF isPointInPolygon(x, y, points) THEN Sqrt(RatZero)
    ELSE minDistToEdges(RatInt(x), RatInt(y), points)

(***************************************************************************)
(* The masks, at pixel (x, y).                                             *)
(***************************************************************************)
\* createSkinMask (lines 1389-1417): the loops visit the even x and y and store
\* the value at (x, y), (x + 1, y) and (x, y + 1); a pixel with x and y odd
\* keeps the 0 of the new array
createSkinMask(lms, w, h, x, y) ==
    Let(polygonPoints(skinLandmarks, lms, w, h), LAMBDA skinPoints :
      IF Len(skinPoints) = 0 THEN MaskZero
      ELSE IF x % 2 = 1 /\ y % 2 = 1 THEN MaskZero
      ELSE Let(distanceToPolygon(x - (x % 2), y - (y % 2), skinPoints), LAMBDA dist :
             MaxZero(OneMinusOver(dist, 60))))

\* createHairMask (lines 1694-1723)
createHairMask(lms, w, h, x, y) ==
    Let(polygonPoints(hairlineIndices, lms, w, h), LAMBDA hairlinePoints :
      IF Len(hairlinePoints) = 0 THEN MaskZero
      ELSE LET bottomY == SeqMax([k \in 1..Len(hairlinePoints) |-> hairlinePoints[k].y])
           IN IF RatLess(RatInt(y), RatAdd(bottomY, RatInt(50)))
              THEN Let(distanceToPolygon(x, y, hairlinePoints), LAMBDA dist :
                     IF DistBelow(dist, 80) THEN MaxZero(OneMinusOver(dist, 80))
                                            ELSE MaskZero)
              ELSE MaskZero)

\* createEyeMask without Math.max(0, ...)
createEyeMask_Unclamped(lms, w, h, x, y) ==
    Let(polygonPoints(eyeLandmarks.left \o eyeLandmarks.right, lms, w, h), LAMBDA eyePoints :
      IF Len(eyePoints) = 0 THEN MaskZero
      ELSE Let(distanceToPolygon(x, y, eyePoints), LAMBDA dist :
             IF DistBelow(dist, 30) THEN OneMinusOver(dist, 25)
                                    ELSE MaskZero))

\* createEyeMask (lines 1725-1752)
createEyeMask(lms, w, h, x, y) ==
    Let(polygonPoints(eyeLandmarks.left \o eyeLandmarks.right, lms, w, h), LAMBDA eyePoints :
      IF Len(eyePoints) = 0 THEN MaskZero
      ELSE Let(distanceToPolygon(x, y, eyePoints), LAMBDA dist :
             IF DistBelow(dist, 30) THEN MaxZero(OneMinusOver(dist, 25))
                                    ELSE MaskZero))

\* createLipMask (lines 1754-1781)
createLipMask(lms, w, h, x, y) ==
    Let(polygonPoints(lipLandmarks, lms, w, h), LAMBDA lipPoints :
      IF Len(lipPoints) = 0 THEN MaskZero
      ELSE Let(distanceToPolygon(x, y, lipPoints), LAMBDA dist :
             IF DistBelow(dist, 25) THEN MaxZero(OneMinusOver(dist, 20))
                                    ELSE MaskZero))

\* createEyebrowMask (lines 1783-1810)
createEyebrowMask(lms, w, h, x, y) ==
    Let(polygonPoints(eyebrowLandmarks.left \o eyebrowLandmarks.right, lms, w, h),
        LAMBDA eyebrowPoints :
      IF Len(eyebrowPoints) = 0 THEN MaskZero
      ELSE Let(distanceToPolygon(x, y, eyebrowPoints), LAMBDA dist :
             IF DistBelow(dist, 20) THEN MaxZero(OneMinusOver(dist, 15))
                                    ELSE MaskZero))

\* createPersonMask that takes the estimated body area alone for the person
createPersonMask_BodyOnly(lms, w, h, x, y) ==
    LET faceOutlinePoints == polygonPoints(faceOutlineIndices, lms, w, h)
    IN IF Len(faceOutlinePoints) = 0 THEN MaskZero
       ELSE LET xs == [k \in 1..Len(faceOutlinePoints) |-> faceOutlinePoints[k].x]
                ys == [k \in 1..Len(faceOutlinePoints) |-> faceOutlinePoints[k].y]
                faceMinX == SeqMin(xs)
                faceMaxX == SeqMax(xs)
                faceMinY == SeqMin(ys)
                faceMaxY == SeqMax(ys)
                personMinX == RatMax(RatZero,
                                     RatSub(faceMinX, RatMul(RatSub(faceMaxX, faceMinX), Rat(3, 10))))
                personMaxX == RatMin(RatInt(w),
                                     RatAdd(faceMaxX, RatMul(RatSub(faceMaxX, faceMinX), Rat(3, 10))))
                personMaxY == RatMin(RatInt(h),
                                     RatAdd(faceMaxY, RatMul(RatSub(faceMaxY, faceMinY), Rat(5, 2))))
                inBodyArea == /\ RatLeq(personMinX, RatInt(x))
                              /\ RatLeq(RatInt(x), personMaxX)
                              /\ RatLeq(faceMaxY, RatInt(y))
                              /\ RatLeq(RatInt(y), personMaxY)
            IN IF inBodyArea THEN MaskOne ELSE MaskZero

\* createPersonMask (lines 1420-1472)
createPersonMask(lms, w, h, x, y) ==
    LET faceOutlinePoints == polygonPoints(faceOutlineIndices, lms, w, h)
    IN IF Len(faceOutlinePoints) = 0 THEN MaskZero
       ELSE LET xs == [k \in 1..Len(faceOutlinePoints) |-> faceOutlinePoints[k].x]
                ys == [k \in 1..Len(faceOutlinePoints) |-> faceOutlinePoints[k].y]
                faceMinX == SeqMin(xs)
                faceMaxX == SeqMax(xs)
                faceMinY == SeqMin(ys)
                faceMaxY == SeqMax(ys)
                personMinX == RatMax(RatZero,
                                     RatSub(faceMinX, RatMul(RatSub(faceMaxX, faceMinX), Rat(3, 10))))
                personMaxX == RatMin(RatInt(w),
                                     RatAdd(faceMaxX, RatMul(RatSub(faceMaxX, faceMinX), Rat(3, 10))))
                personMaxY == RatMin(RatInt(h),
                                     RatAdd(faceMaxY, RatMul(RatSub(faceMaxY, faceMinY), Rat(5, 2))))
                insideFace == isPointInPolygon(x, y, faceOutlinePoints)
                inBodyArea == /\ RatLeq(personMinX, RatInt(x))
                              /\ RatLeq(RatInt(x), personMaxX)
                              /\ RatLeq(faceMaxY, RatInt(y))
                              /\ RatLeq(RatInt(y), personMaxY)
            IN IF insideFace \/ inBodyArea THEN MaskOne ELSE MaskZero

\* createBackgroundMask with the test the wrong way round
createBackgroundMask_NotInverted(personMaskValue) ==
    IF MaskAbove(personMaskValue, Rat(1, 2)) THEN MaskOne ELSE MaskZero

\* createBackgroundMask (lines 1475-1484), from the person mask's value
createBackgroundMask(personMaskValue) ==
    IF MaskAbove(personMaskValue, Rat(1, 2)) THEN MaskZero ELSE MaskOne

\* createStrictBinarySkinMask without the lip exclusion
createStrictBinarySkinMask_LipsIn(lms, w, h, x, y) ==
    LET faceOutlinePoints == polygonPoints(faceOutlineIndices, lms, w, h)
    IN IF Len(faceOutlinePoints) = 0 THEN MaskZero
       ELSE LET insideFace == isPointInPolygon(x, y, faceOutlinePoints)
                isExcluded ==
                    ~(/\ ~MaskAbove(createEyeMask(lms, w, h, x, y), Rat(1, 10))
                      /\ ~MaskAbove(createEyebrowMask(lms, w, h, x, y), Rat(1, 10))
                      /\ ~MaskAbove(createHairMask(lms, w, h, x, y), Rat(3, 10)))
            IN IF insideFace /\ ~isExcluded THEN MaskOne ELSE MaskZero

\* createStrictBinarySkinMask (lines 1487-1535); isExcluded is the code's
\* disjunction, written as the negation of a conjunction
createStrictBinarySkinMask(lms, w, h, x, y) ==
    LET faceOutlinePoints == polygonPoints(faceOutlineIndices, lms, w, h)
    IN IF Len(faceOutlinePoints) = 0 THEN MaskZero
       ELSE LET insideFace == isPointInPolygon(x, y, faceOutlinePoints)
                isExcluded ==
                    ~(/\ ~MaskAbove(createEyeMask(lms, w, h, x, y), Rat(1, 10))
                      /\ ~MaskAbove(createLipMask(lms, w, h, x, y), Rat(1, 10))
                      /\ ~MaskAbove(createEyebrowMask(lms, w, h, x, y), Rat(1, 10))
                      /\ ~MaskAbove(createHairMask(lms, w, h, x, y), Rat(3, 10)))
            IN IF insideFace /\ ~isExcluded THEN MaskOne ELSE MaskZero

\* applyFeatherToMask with the test maskValue < 1 alone
applyFeatherToMask_SoftensOutside(maskValue) ==
    IF MaskBelowOne(maskValue)
    THEN [maskValue EXCEPT !.gauss = TRUE]
    ELSE maskValue

\* applyFeatherToMask (lines 1552-1614), from the binary mask's value: only a
\* value strictly between 0 and 1 is changed, to
\*   Math.max(0, Math.min(1, v + (1 - v) * Math.exp(-edgeDist^2 / 2) * 0.5)),
\* edgeDist = |v - 0.5| * 2 (featherSize cancels in the exponent), a real
\* strictly between v and 1 that the model keeps as v marked gauss
applyFeatherToMask(maskValue) ==
    IF MaskPositive(maskValue) /\ MaskBelowOne(maskValue)
    THEN [maskValue EXCEPT !.gauss = TRUE]
    ELSE maskValue

(***************************************************************************)
(* Colours.  A pixel is << r, g, b, a >>, each 0..255.                     *)
(***************************************************************************)
Max3(a, b, c) == IF a >= b /\ a >= c THEN a ELSE IF b >= c THEN b ELSE c
Min3(a, b, c) == IF a <= b /\ a <= c THEN a ELSE IF b <= c THEN b ELSE c

\* clamp(value) (line 2275)
clamp(value) == DblMax(DblInt(0), DblMin(DblInt(255), value))

\* lerp(a, b, t) (line 2279) for a mask value t: a + (b - a) * t.  For a t
\* strictly between 0 and 1 the result is a real the model does not evaluate.
lerp(a, b, t) ==
    IF t = MaskOne THEN RatAdd(RatInt(a), RatSub(RatInt(b), RatInt(a)))
    ELSE IF t = MaskZero THEN RatInt(a)
    ELSE [a |-> a, b |-> b, t |-> t]

\* a * 0.k for a double a and the decimal literal k/100 of the code
Pct(a, k) == DblMul(a, DblConst(k, 100))

\* applyUVLUT with the green and the blue of the bright skin exchanged
applyUVLUT_GreenDominant(r, g, b, type) ==
    LET R == DblInt(r)
        G == DblInt(g)
        B == DblInt(b)
        brightness == DblConst(r + g + b, 3)
        top(v) == DblMin(DblInt(255), v)
        between(lo, v) == DblMin(DblInt(255), DblMax(DblInt(lo), v))
    IN CASE type = "skin" ->
              IF DblLess(DblInt(140), brightness)
              THEN [r |-> between(40, DblAdd(Pct(brightness, 35), Pct(G, 25))),
                    g |-> between(180, DblAdd(Pct(brightness, 95), Pct(B, 50))),
                    b |-> between(140, DblAdd(Pct(brightness, 75), Pct(G, 40)))]
              ELSE [r |-> between(20, DblAdd(Pct(R, 25), Pct(B, 15))),
                    g |-> between(80, DblAdd(Pct(G, 70), Pct(B, 60))),
                    b |-> between(140, DblAdd(Pct(B, 120), Pct(G, 50)))]
         [] type = "eye" ->
              IF DblLess(DblInt(80), brightness)
              THEN [r |-> top(DblAdd(DblInt(200), Pct(brightness, 30))),
                    g |-> top(DblAdd(DblInt(200), Pct(brightness, 30))),
                    b |-> top(DblAdd(DblInt(220), Pct(brightness, 25)))]
              ELSE [r |-> DblMax(DblInt(0), Pct(brightness, 20)),
                    g |-> DblMax(DblInt(0), Pct(brightness, 20)),
                    b |-> DblMax(DblInt(0), Pct(brightness, 25))]
         [] type = "lip" ->
              [r |-> between(0, DblAdd(Pct(G, 30), Pct(R, 10))),
               g |-> between(100, DblAdd(Pct(G, 90), Pct(B, 40))),
               b |-> between(120, DblAdd(Pct(G, 50), Pct(B, 80)))]
         [] type = "hair" ->
              [r |-> top(DblAdd(DblInt(180), Pct(brightness, 30))),
               g |-> top(DblAdd(DblInt(200), Pct(brightness, 30))),
               b |-> top(DblAdd(DblInt(220), Pct(brightness, 30)))]
         [] OTHER -> [r |-> R, g |-> G, b |-> B]

\* applyUVLUT without the upper clamp of Math.min
applyUVLUT_Unclamped(r, g, b, type) ==
    LET R == DblInt(r)
        G == DblInt(g)
        B == DblInt(b)
        brightness == DblConst(r + g + b, 3)
        top(v) == v
        between(lo, v) == DblMax(DblInt(lo), v)
    IN CASE type = "skin" ->
              IF DblLess(DblInt(140), brightness)
              THEN [r |-> between(40, DblAdd(Pct(brightness, 35), Pct(G, 25))),
                    g |-> between(140, DblAdd(Pct(brightness, 75), Pct(G, 40))),
                    b |-> between(180, DblAdd(Pct(brightness, 95), Pct(B, 50)))]
              ELSE [r |-> between(20, DblAdd(Pct(R, 25), Pct(B, 15))),
                    g |-> between(80, DblAdd(Pct(G, 70), Pct(B, 60))),
                    b |-> between(140, DblAdd(Pct(B, 120), Pct(G, 50)))]
         [] type = "eye" ->
              IF DblLess(DblInt(80), brightness)
              THEN [r |-> top(DblAdd(DblInt(200), Pct(brightness, 30))),
                    g |-> top(DblAdd(DblInt(200), Pct(brightness, 30))),
                    b |-> top(DblAdd(DblInt(220), Pct(brightness, 25)))]
              ELSE [r |-> DblMax(DblInt(0), Pct(brightness, 20)),
                    g |-> DblMax(DblInt(0), Pct(brightness, 20)),
                    b |-> DblMax(DblInt(0), Pct(brightness, 25))]
         [] type = "lip" ->
              [r |-> between(0, DblAdd(Pct(G, 30), Pct(R, 10))),
               g |-> between(100, DblAdd(Pct(G, 90), Pct(B, 40))),
               b |-> between(120, DblAdd(Pct(G, 50), Pct(B, 80)))]
         [] type = "hair" ->
              [r |-> top(DblAdd(DblInt(180), Pct(brightness, 30))),
               g |-> top(DblAdd(DblInt(200), Pct(brightness, 30))),
               b |-> top(DblAdd(DblInt(220), Pct(brightness, 30)))]
         [] OTHER -> [r |-> R, g |-> G, b |-> B]

\* applyUVLUT(r, g, b, type) (lines 1876-1937); (r + g + b) / 3 and every
\* product and sum are rounded as the doubles of the code are
applyUVLUT(r, g, b, type) ==
    LET R == DblInt(r)
        G == DblInt(g)
        B == DblInt(b)
        brightness == DblConst(r + g + b, 3)
        top(v) == DblMin(DblInt(255), v)
        between(lo, v) == DblMin(DblInt(255), DblMax(DblInt(lo), v))
    IN CASE type = "skin" ->
              IF DblLess(DblInt(140), brightness)
              THEN [r |-> between(40, DblAdd(Pct(brightness, 35), Pct(G, 25))),
                    g |-> between(140, DblAdd(Pct(brightness, 75), Pct(G, 40))),
                    b |-> between(180, DblAdd(Pct(brightness, 95), Pct(B, 50)))]
              ELSE [r |-> between(20, DblAdd(Pct(R, 25), Pct(B, 15))),
                    g |-> between(80, DblAdd(Pct(G, 70), Pct(B, 60))),
                    b |-> between(140, DblAdd(Pct(B, 120), Pct(G, 50)))]
         [] type = "eye" ->
              IF DblLess(DblInt(80), brightness)
              THEN [r |-> top(DblAdd(DblInt(200), Pct(brightness, 30))),
                    g |-> top(DblAdd(DblInt(200), Pct(brightness, 30))),
                    b |-> top(DblAdd(DblInt(220), Pct(brightness, 25)))]
              ELSE [r |-> DblMax(DblInt(0), Pct(brightness, 20)),
                    g |-> DblMax(DblInt(0), Pct(brightness, 20)),
                    b |-> DblMax(DblInt(0), Pct(brightness, 25))]
         [] type = "lip" ->
              [r |-> between(0, DblAdd(Pct(G, 30), Pct(R, 10))),
               g |-> between(100, DblAdd(Pct(G, 90), Pct(B, 40))),
               b |-> between(120, DblAdd(Pct(G, 50), Pct(B, 80)))]
         [] type = "hair" ->
              [r |-> top(DblAdd(DblInt(180), Pct(brightness, 30))),
               g |-> top(DblAdd(DblInt(200), Pct(brightness, 30))),
               b |-> top(DblAdd(DblInt(220), Pct(brightness, 30)))]
         [] OTHER -> [r |-> R, g |-> G, b |-> B]

\* sCurve(t) of applySCurveContrastToMask (lines 1987-1993), strength = 0.4
sCurve(t) ==
    IF RatLess(t, Rat(1, 2))
    THEN RatAdd(RatMul(t, Rat(6, 10)), RatMul(RatMul(t, t), Rat(8, 10)))
    ELSE RatAdd(RatMul(t, Rat(6, 10)),
                RatMul(RatSub(RatOne, RatMul(RatSub(RatOne, t), RatSub(RatOne, t))),
                       Rat(4, 10)))

\* one channel of a masked pixel through applySCurveContrastToMask (lines 2003-2015)
sCurveChannel(v) ==
    ToUint8Clamp(RatMax(RatZero, RatMin(RatInt(255), RatMul(sCurve(Rat(v, 255)), RatInt(255)))))

\* invertColors (lines 2283-2290) at a pixel
invertColors(px) == << 255 - px[1], 255 - px[2], 255 - px[3], px[4] >>

\* STEP 6 (lines 1221-1263): processedBackgroundData at a pixel
processBackground(originalPx, bgMaskValue) ==
    LET r == originalPx[1]
        g == originalPx[2]
        b == originalPx[3]
        luminance == DblConst(r + g + b, 3)
        maxChannel == Max3(r, g, b)
        minChannel == Min3(r, g, b)
        saturation == IF maxChannel > 0 THEN DblConst(maxChannel - minChannel, maxChannel)
                                        ELSE DblInt(0)
    IN IF MaskAbove(bgMaskValue, Rat(1, 2))
       THEN IF DblLess(luminance, DblInt(60)) /\ DblLess(saturation, DblConst(3, 10))
            THEN LET v == DoubleToUint8Clamp(DblMax(DblInt(0), Pct(luminance, 30)))
                 IN << v, v, v, originalPx[4] >>
            ELSE LET darkened == DoubleToUint8Clamp(clamp(Pct(luminance, 85)))
                 IN << darkened, darkened, darkened, originalPx[4] >>
       ELSE originalPx

\* the type STEP 7b passes to applyUVLUT (lines 1286-1296)
lutType(eyeValue, lipValue) ==
    IF MaskAbove(eyeValue, Rat(1, 10)) THEN "eye"
    ELSE IF MaskAbove(lipValue, Rat(1, 10)) THEN "lip"
    ELSE "skin"

\* STEP 7a-7b (lines 1265-1303): processedSkinData at a pixel, before the S-curve
processSkin(originalPx, processedBackgroundPx, maskValue, eyeValue, lipValue) ==
    IF MaskPositive(maskValue)
    THEN Let(applyUVLUT(255 - originalPx[1], 255 - originalPx[2], 255 - originalPx[3],
                        lutType(eyeValue, lipValue)),
             LAMBDA uvColor : << DoubleToUint8Clamp(uvColor.r), DoubleToUint8Clamp(uvColor.g),
                                 DoubleToUint8Clamp(uvColor.b), originalPx[4] >>)
    ELSE processedBackgroundPx

\* STEP 7c (line 1309, lines 1982-2018)
applySCurveContrastToMask(px, maskValue) ==
    IF MaskPositive(maskValue)
    THEN << sCurveChannel(px[1]), sCurveChannel(px[2]), sCurveChannel(px[3]), px[4] >>
    ELSE px

\* this.colorSmoothingAlpha = 0.7 (line 97)
colorSmoothingAlpha == DblConst(7, 10)

\* STEP 8 that carries the change since the frame before further on
temporalBlend_Extrapolates(px, lastPx, maskValue) ==
    LET alpha == colorSmoothingAlpha
        mix(prev, cur) ==
            DoubleToUint8Clamp(DblSub(DblMul(DblAdd(DblInt(1), alpha), DblInt(cur)),
                                      DblMul(alpha, DblInt(prev))))
    IN IF lastPx # NULL /\ MaskPositive(maskValue)
       THEN << mix(lastPx[1], px[1]), mix(lastPx[2], px[2]), mix(lastPx[3], px[3]), px[4] >>
       ELSE px

\* STEP 8 that blends the first frame with a black one
temporalBlend_FromBlack(px, lastPx, maskValue) ==
    LET alpha == colorSmoothingAlpha
        mix(prev, cur) ==
            DoubleToUint8Clamp(DblAdd(DblMul(alpha, DblInt(prev)),
                                      DblMul(DblSub(DblInt(1), alpha), DblInt(cur))))
        last == IF lastPx = NULL THEN << 0, 0, 0, 0 >> ELSE lastPx
    IN IF MaskPositive(maskValue)
       THEN << mix(last[1], px[1]), mix(last[2], px[2]), mix(last[3], px[3]), px[4] >>
       ELSE px

\* STEP 8 (lines 1313-1331): colorSmoothingAlpha = 0.7; lastPx is the pixel of
\* this.lastProcessedSkin, NULL when there is none
temporalBlend(px, lastPx, maskValue) ==
    LET alpha == colorSmoothingAlpha
        mix(prev, cur) ==
            DoubleToUint8Clamp(DblAdd(DblMul(alpha, DblInt(prev)),
                                      DblMul(DblSub(DblInt(1), alpha), DblInt(cur))))
    IN IF lastPx # NULL /\ MaskPositive(maskValue)
       THEN << mix(lastPx[1], px[1]), mix(lastPx[2], px[2]), mix(lastPx[3], px[3]), px[4] >>
       ELSE px

\* STEP 9 with its last two branches exchanged
composite_KeepBackground(originalPx, processedBackgroundPx, processedSkinPx, maskValue, bgMaskValue) ==
    IF MaskPositive(maskValue)
    THEN << ToUint8Clamp(lerp(processedBackgroundPx[1], processedSkinPx[1], maskValue)),
            ToUint8Clamp(lerp(processedBackgroundPx[2], processedSkinPx[2], maskValue)),
            ToUint8Clamp(lerp(processedBackgroundPx[3], processedSkinPx[3], maskValue)),
            originalPx[4] >>
    ELSE IF MaskAbove(bgMaskValue, Rat(1, 2))
    THEN originalPx
    ELSE << processedBackgroundPx[1], processedBackgroundPx[2], processedBackgroundPx[3],
            originalPx[4] >>

\* STEP 9 with a black pixel in place of the original one
composite_BlackPerson(originalPx, processedBackgroundPx, processedSkinPx, maskValue, bgMaskValue) ==
    IF MaskPositive(maskValue)
    THEN << ToUint8Clamp(lerp(processedBackgroundPx[1], processedSkinPx[1], maskValue)),
            ToUint8Clamp(lerp(processedBackgroundPx[2], processedSkinPx[2], maskValue)),
            ToUint8Clamp(lerp(processedBackgroundPx[3], processedSkinPx[3], maskValue)),
            originalPx[4] >>
    ELSE IF MaskAbove(bgMaskValue, Rat(1, 2))
    THEN << processedBackgroundPx[1], processedBackgroundPx[2], processedBackgroundPx[3],
            originalPx[4] >>
    ELSE << 0, 0, 0, originalPx[4] >>

\* STEP 9 (lines 1336-1364): finalImageData at a pixel
composite(originalPx, processedBackgroundPx, processedSkinPx, maskValue, bgMaskValue) ==
    IF MaskPositive(maskValue)
    THEN << ToUint8Clamp(lerp(processedBackgroundPx[1], processedSkinPx[1], maskValue)),
            ToUint8Clamp(lerp(processedBackgroundPx[2], processedSkinPx[2], maskValue)),
            ToUint8Clamp(lerp(processedBackgroundPx[3], processedSkinPx[3], maskValue)),
            originalPx[4] >>
    ELSE IF MaskAbove(bgMaskValue, Rat(1, 2))
    THEN << processedBackgroundPx[1], processedBackgroundPx[2], processedBackgroundPx[3],
            originalPx[4] >>
    ELSE originalPx

\* applyUVFilter(landmarks) (lines 1187-1387) at pixel (x, y) of a w x h canvas:
\* originalPx is the pixel of originalData, lastPx the pixel of
\* this.lastProcessedSkin (NULL when the field is null).  The record holds the
\* pixel of every array the method builds up to STEP 9; lut is the type STEP 7b
\* passed to applyUVLUT for this pixel, "none" when STEP 7 left the pixel alone.
\* Of null landmarks createPersonMask throws (line 1434) before any array is
\* built: the catch (lines 1379-1386) has drawInvertedFrame paint the inverted
\* frame, and this.lastProcessedSkin stays as it was.
applyUVFilter(lms, w, h, x, y, originalPx, lastPx) ==
    IF lms = NULL
    THEN [threw |-> TRUE,
          lut |-> "none",
          lastProcessedSkin |-> lastPx,
          painted |-> invertColors(originalPx)]
    ELSE
    Let(createPersonMask(lms, w, h, x, y), LAMBDA personMask :
    Let(createBackgroundMask(personMask), LAMBDA backgroundMask :
    Let(createStrictBinarySkinMask(lms, w, h, x, y), LAMBDA binarySkinMask :
    Let(createEyeMask(lms, w, h, x, y), LAMBDA eyeMask :
    Let(createLipMask(lms, w, h, x, y), LAMBDA lipMask :
    Let(applyFeatherToMask(binarySkinMask), LAMBDA featheredMask :
    Let(processBackground(originalPx, backgroundMask), LAMBDA processedBackgroundData :
    Let(processSkin(originalPx, processedBackgroundData, featheredMask, eyeMask, lipMask),
        LAMBDA remapped :
    Let(applySCurveContrastToMask(remapped, featheredMask), LAMBDA curved :
    Let(temporalBlend(curved, lastPx, featheredMask), LAMBDA processedSkinData :
      [personMask |-> personMask,
       backgroundMask |-> backgroundMask,
       binarySkinMask |-> binarySkinMask,
       eyeMask |-> eyeMask,
       lipMask |-> lipMask,
       featheredMask |-> featheredMask,
       processedBackgroundData |-> processedBackgroundData,
       lut |-> IF MaskPositive(featheredMask) THEN lutType(eyeMask, lipMask)
                                              ELSE "none",
       remappedSkinData |-> curved,
       processedSkinData |-> processedSkinData,
       lastProcessedSkin |-> processedSkinData,
       finalImageData |-> composite(originalPx, processedBackgroundData,
                                    processedSkinData, featheredMask, backgroundMask)]
    ))))))))))

(***************************************************************************)
(* Frames the pipeline is run on.                                          *)
(***************************************************************************)
\* canvas.width and canvas.height
width == 256
height == 256

\* The detector's landmark list (refineLandmarks: 478 points), as pixel
\* positions on the canvas: x whole, y a whole number and a quarter (the
\* quarter is added by faceLandmark).  The face outline, << idx, x, y >>:
outlinePixels ==
    << << 172, 72, 176 >>, << 136, 76, 192 >>, << 150, 84, 204 >>, << 149, 96, 212 >>,
       << 176, 108, 218 >>, << 148, 118, 222 >>, << 152, 128, 224 >>,
       << 377, 138, 222 >>, << 400, 148, 218 >>, << 378, 160, 212 >>, << 379, 172, 204 >>,
       << 365, 180, 192 >>, << 397, 184, 176 >>, << 288, 188, 160 >>, << 361, 190, 144 >>,
       << 323, 192, 128 >>,
       << 234, 64, 120 >>, << 454, 192, 120 >>, << 227, 66, 136 >>, << 447, 190, 136 >>,
       << 10, 160, 40 >>, << 151, 128, 40 >>, << 9, 128, 72 >> >>

InSeq(idx, indices) == \E k \in 1..Len(indices) : indices[k] = idx

\* the eyebrows are at (96, 72) and (160, 72), the eyes at (96, 110) and
\* (160, 110), the lips run from (112, 184) to (144, 184); every other landmark
\* is at the tip of the nose
facePixel(idx) ==
    IF \E k \in 1..Len(outlinePixels) : outlinePixels[k][1] = idx
    THEN LET p == outlinePixels[CHOOSE k \in 1..Len(outlinePixels) : outlinePixels[k][1] = idx]
         IN << p[2], p[3] >>
    ELSE IF InSeq(idx, eyebrowLandmarks.left) THEN << 96, 72 >>
    ELSE IF InSeq(idx, eyebrowLandmarks.right) THEN << 160, 72 >>
    ELSE IF InSeq(idx, eyeLandmarks.left) THEN << 96, 110 >>
    ELSE IF InSeq(idx, eyeLandmarks.right) THEN << 160, 110 >>
    ELSE IF InSeq(idx, lipLandmarks) THEN (IF idx < 200 THEN << 112, 184 >> ELSE << 144, 184 >>)
    ELSE << 128, 140 >>

\* landmark idx (from 0), normalised to the canvas as the detector reports it
faceLandmark(idx) ==
    [x |-> Rat(facePixel(idx)[1], width),
     y |-> Rat(4 * facePixel(idx)[2] + 1, 4 * height),
     z |-> Rat(0, 1)]

FaceA == [k \in 1..478 |-> faceLandmark(k - 1)]
\* a list cut short, for the filter idx < landmarks.length
FaceB == [k \in 1..340 |-> faceLandmark(k - 1)]
\* a list with no landmark in it
FaceNone == << >>
FaceSets == {FaceA, FaceB, FaceNone}

\* the pixels looked at: Columns x Rows of them, evenly spread over the canvas
Columns == 8
Rows == 32
PixelXs == {(k * width) \div Columns : k \in 0..(Columns - 1)}
PixelYs == {(k * height) \div Rows : k \in 0..(Rows - 1)}

\* camera pixels: a dark grey, a skin tone, a saturated green
CameraPixels == { << 30, 30, 30, 255 >>, << 200, 150, 120, 255 >>, << 90, 200, 40, 255 >> }
\* pixels of the processed skin the frame before left behind
LastSkinPixels == { << 10, 200, 250, 255 >>, << 250, 40, 0, 255 >> }

(***************************************************************************)
(* The pixel specification: the object just constructed, its video         *)
(* delivering frames, and one call of applyUVFilter(landmarks) looked at   *)
(* in one pixel.  The method reads of the object only the canvas, the      *)
(* video and this.lastProcessedSkin.                                       *)
(***************************************************************************)
InitFrame ==
    /\ frame \in [landmarks : FaceSets, x : PixelXs, y : PixelYs,
                  originalData : CameraPixels,
                  lastProcessedSkin : {NULL} \cup LastSkinPixels]
    /\ out = NotApplied
    /\ faceMesh = FALSE
    /\ camera = "none"
    /\ mediaPipeReady = FALSE
    /\ isProcessing = FALSE
    /\ animationFrame = NoHandle
    /\ fallbackActive = FALSE
    /\ renderLoopActive = FALSE
    /\ lastLandmarks = NULL
    /\ landmarkHistory = << >>
    /\ emaLandmarks = NULL
    /\ lastProcessedSkin = IF frame.lastProcessedSkin = NULL THEN NoBuffer ELSE "fresh"
    /\ lastFrameTime = 0
    /\ faceMeshFailCount = 0
    /\ videoReady = FALSE
    /\ now = InitDelayMs
    /\ haveCurrentData = TRUE
    /\ hasWidth = TRUE
    /\ hasHeight = TRUE
    /\ rafQueue = {}
    /\ canvas = [pipeline |-> "none", byLoop |-> FALSE, tracking |-> FALSE,
                 usesLast |-> FALSE]
    /\ inFlight = 0
    /\ consecutiveRejects = 0
    /\ loopStarted = FALSE
    /\ degraded = FALSE
    /\ smoothCall = NoCall
    /\ renderClock = NoRender
    /\ sendClock = NoSend
    /\ page = NoPage

CallApplyUVFilter ==
    /\ out = NotApplied
    /\ CommitObject(applyUVFilterSched(Cur, frame.landmarks))
    /\ out' = applyUVFilter(frame.landmarks, width, height, frame.x, frame.y,
                            frame.originalData, frame.lastProcessedSkin)
    /\ UNCHANGED << frame, smoothCall, renderClock, sendClock, page >>

NextFrame == CallApplyUVFilter

SpecFrame == InitFrame /\ [][NextFrame]_vars

(***************************************************************************)
(* The smoothing specification: the scheduler without detector errors and  *)
(* explicit fallback calls, with every call of smoothLandmarks kept in     *)
(* smoothCall.  processFrame (line 1106) calls it with the face of a       *)
(* detector result; CallSmoothLandmarks is the method called with no       *)
(* detection (null or an empty array).                                     *)
(***************************************************************************)
\* the call smoothLandmarks(raw) on the object state s, as smoothCall keeps it
SmoothCall(s, raw) ==
    LET sm == smoothLandmarks(s, raw)
    IN [raw |-> raw,
        before |-> [ema |-> s.emaLandmarks, last |-> s.lastLandmarks,
                    history |-> s.landmarkHistory],
        threw |-> sm.threw,
        ret |-> sm.ret,
        after |-> [ema |-> sm.emaLandmarks, last |-> sm.lastLandmarks,
                   history |-> sm.landmarkHistory]]

SendResolvesObserved ==
    \E results \in {NULL} \cup RawSets :
        /\ inFlight > 0
        /\ results # NULL => Len(landmarkHistory) < MaxSmoothings
        /\ CommitObject(sendResolved(Cur, results))
        /\ smoothCall' = IF results = NULL
                            THEN smoothCall
                            ELSE SmoothCall([Cur EXCEPT !.fallbackActive = FALSE], results)
        /\ UNCHANGED << frame, out, renderClock, sendClock, page >>

CallSmoothLandmarks ==
    \E raw \in {NULL, << >>} :
        LET sm == smoothLandmarks(Cur, raw)
        IN /\ CommitObject([Cur EXCEPT !.emaLandmarks = sm.emaLandmarks,
                                       !.landmarkHistory = sm.landmarkHistory,
                                       !.lastLandmarks = sm.lastLandmarks])
           /\ smoothCall' = SmoothCall(Cur, raw)
           /\ UNCHANGED << frame, out, renderClock, sendClock, page >>

NextSmooth ==
    \/ LoadedMetadata
    \/ VideoHasData
    \/ CallSetupFaceMesh
    \/ CameraFrame
    \/ SendResolvesObserved
    \/ CallSmoothLandmarks
    \/ AnimationFrame
    \/ AdvanceTime

SpecSmooth == Init /\ [][NextSmooth]_vars

(***************************************************************************)
(* The EMA specification: smoothLandmarks (lines 1042-1078) called on the  *)
(* constructed object with landmark sets of one length, as processFrame    *)
(* calls it with the faces of successive detector results.  The            *)
(* coordinates are halves, on which the doubles of the code compute the    *)
(* EMA without rounding.  smoothCall keeps the last call and, with it,     *)
(*   calls  the calls so far,                                              *)
(*   start  the EMA state before the first call of the present run of      *)
(*          calls with one raw set (the raw set itself when the run began  *)
(*          with the call that initialised the state),                     *)
(*   reps   the EMA updates of the run.                                    *)
(***************************************************************************)
\* calls of smoothLandmarks the model follows
MaxEmaCalls == 11

EmaL0 == << Pt(0, 1, 1, 1, Rat(0, 1)), Pt(1, 2, 1, 2, Undefined) >>
EmaL1 == << Pt(1, 1, 1, 2, Rat(1, 2)), Pt(1, 2, 0, 1, Rat(1, 2)) >>
EmaSets == {EmaL0, EmaL1}

EmaCalls == IF smoothCall = NoCall THEN 0 ELSE smoothCall.calls

\* the call smoothLandmarks(raw) on the object state s, after the call `last'
EmaCall(s, raw, last) ==
    LET c == SmoothCall(s, raw)
        first == s.emaLandmarks = NULL
        same == ~first /\ last.raw = raw
    IN [raw |-> c.raw, before |-> c.before, threw |-> c.threw, ret |-> c.ret,
        after |-> c.after,
        calls |-> IF last = NoCall THEN 1 ELSE last.calls + 1,
        start |-> IF first THEN raw ELSE IF same THEN last.start ELSE s.emaLandmarks,
        reps |-> IF first THEN 0 ELSE IF same THEN last.reps + 1 ELSE 1]

CallSmoothLandmarksWith ==
    \E raw \in EmaSets :
        /\ EmaCalls < MaxEmaCalls
        /\ LET sm == smoothLandmarks(Cur, raw)
           IN CommitObject([Cur EXCEPT !.emaLandmarks = sm.emaLandmarks,
                                       !.landmarkHistory = sm.landmarkHistory,
                                       !.lastLandmarks = sm.lastLandmarks])
        /\ smoothCall' = EmaCall(Cur, raw, smoothCall)
        /\ UNCHANGED << frame, out, renderClock, sendClock, page >>

NextEma == CallSmoothLandmarksWith

SpecEma == Init /\ [][NextEma]_vars

(***************************************************************************)
(* The frame-rate specification: the scheduler with the browser's timing   *)
(* of requestAnimationFrame (a callback runs at the first display refresh  *)
(* after the request, never in the refresh that requested it) and a clock  *)
(* for the frames the render-loop ticks draw:                              *)
(*   fresh  the handles requested since the last refresh,                  *)
(*   age    the time since a tick last drew a frame, in ms (an age that    *)
(*          has reached frameInterval stays),                              *)
(*   early  whether that frame came less than frameInterval after the      *)
(*          tick-drawn frame before it.                                    *)
(***************************************************************************)
\* a step of a handler that ends in the object state s
CommitTimed(s) ==
    /\ CommitObject(s)
    /\ renderClock' = [renderClock EXCEPT
                          !.fresh = (@ \cap Handles(s)) \cup s.requested]
    /\ UNCHANGED << frame, out, smoothCall, sendClock, page >>

\* a canvas no pipeline has painted
Unpainted == [pipeline |-> "none", byLoop |-> FALSE, tracking |-> FALSE,
              usesLast |-> FALSE]

\* the callback cb, run on the object state s, draws a frame
Draws(s, cb) == runCallback([s EXCEPT !.canvas = Unpainted], cb).canvas # Unpainted

LoadedMetadataTimed == \E valid \in BOOLEAN : CommitTimed(onLoadedMetadata(Cur, valid, valid))

VideoErrorTimed == CommitTimed(onVideoError(Cur))

CallStartImmediateFallbackTimed == CommitTimed(startImmediateFallback(Cur))

CallActivateHardFallbackTimed ==
    \E stopMediaPipeOnly \in BOOLEAN :
        CommitTimed(activateHardFallback(Cur, stopMediaPipeOnly))

CallSetupFaceMeshTimed ==
    \E FaceMeshDefined \in BOOLEAN, CameraDefined \in BOOLEAN, ctorThrows \in BOOLEAN :
        CommitTimed(setupFaceMesh(Cur, FaceMeshDefined, CameraDefined, ctorThrows))

SendResolvesTimed ==
    \E results \in {NULL} \cup RawSets :
        /\ inFlight > 0
        /\ results # NULL => Len(landmarkHistory) < MaxSmoothings
        /\ CommitTimed(sendResolved(Cur, results))

\* a display refresh runs a callback that was requested before it
AnimationFrameTimed ==
    \E cb \in rafQueue :
        /\ cb.id \notin renderClock.fresh
        /\ LET s == runCallback(Cur, cb)
           IN /\ CommitObject(s)
              /\ renderClock' =
                    [fresh |-> (renderClock.fresh \cap Handles(s)) \cup s.requested,
                     age |-> IF Draws(Cur, cb) THEN 0 ELSE renderClock.age,
                     early |-> IF Draws(Cur, cb)
                                  THEN BelowFrameInterval(renderClock.age)
                                  ELSE renderClock.early]
        /\ UNCHANGED << frame, out, smoothCall, sendClock, page >>

\* d ms pass, up to the next display refresh
AdvanceTimeTimed ==
    \E d \in RefreshMs :
        /\ CommitObject([Cur EXCEPT !.lastFrameTime = Rebase(@, d),
                                    !.rafQueue = {[cb EXCEPT !.last = Rebase(@, d)] : cb \in @}])
        /\ renderClock' = [renderClock EXCEPT
                              !.fresh = {},
                              !.age = IF BelowFrameInterval(@) THEN @ + d ELSE @]
        /\ UNCHANGED << frame, out, smoothCall, sendClock, page >>

NextRate ==
    \/ LoadedMetadataTimed
    \/ VideoErrorTimed
    \/ VideoHasData
    \/ CallStartImmediateFallbackTimed
    \/ CallActivateHardFallbackTimed
    \/ CallSetupFaceMeshTimed
    \/ CameraFrame
    \/ SendResolvesTimed
    \/ SendRejects
    \/ AnimationFrameTimed
    \/ AdvanceTimeTimed

SpecRate == Init /\ [][NextRate]_vars

(***************************************************************************)
(* The whole-frame specification: the object just constructed, its video   *)
(* delivering frames, and one call of applyUVFilterToEntireFrame() looked  *)
(* at in one pixel of the mirrored video frame.                            *)
(***************************************************************************)
\* brightness > 180 && saturation < 0.3 (lines 824-829), with
\* brightness = (r + g + b) / 3 and
\* saturation = maxChannel > 0 ? (maxChannel - minChannel) / maxChannel : 0
isSunscreen(r, g, b) ==
    LET brightness == Rat(r + g + b, 3)
        maxChannel == Max3(r, g, b)
        minChannel == Min3(r, g, b)
        saturation == IF maxChannel > 0
                         THEN Rat(maxChannel - minChannel, maxChannel)
                         ELSE RatZero
    IN RatLess(RatInt(180), brightness) /\ RatLess(saturation, Rat(3, 10))

\* the plain inversion in place of the green-and-blue filter
greenBlueOnly_PlainInversion(r, g, b) ==
    [r |-> DblInt(255 - r), g |-> DblInt(255 - g), b |-> DblInt(255 - b)]

\* const greenBlueOnly = {r: Math.min(255, invertedG * 0.3),
\*                        g: Math.min(255, invertedG * 1.0),
\*                        b: Math.min(255, invertedB * 1.0)}   (lines 839-850)
greenBlueOnly(r, g, b) ==
    LET invertedR == 255 - r
        invertedG == 255 - g
        invertedB == 255 - b
    IN [r |-> DblMin(DblInt(255), Pct(DblInt(invertedG), 30)),
        g |-> DblMin(DblInt(255), Pct(DblInt(invertedG), 100)),
        b |-> DblMin(DblInt(255), Pct(DblInt(invertedB), 100))]

\* the body of the pixel loop (lines 819-854) on the pixel px = << r, g, b, a >>
\* of the Uint8ClampedArray data
applyUVFilterToEntireFramePixel(px) ==
    IF isSunscreen(px[1], px[2], px[3])
    THEN << 0, 0, 0, px[4] >>
    ELSE LET c == greenBlueOnly(px[1], px[2], px[3])
         IN << DoubleToUint8Clamp(c.r), DoubleToUint8Clamp(c.g), DoubleToUint8Clamp(c.b), px[4] >>

\* the channel values of the video pixels looked at
ChannelLevels == {0, 60, 128, 180, 200, 255}
WholePixels == {<< r, g, b, 255 >> : r \in ChannelLevels, g \in ChannelLevels,
                                     b \in ChannelLevels}

\* the object just constructed, with a video that delivers frames
VideoDelivering ==
    /\ faceMesh = FALSE
    /\ camera = "none"
    /\ mediaPipeReady = FALSE
    /\ isProcessing = FALSE
    /\ animationFrame = NoHandle
    /\ fallbackActive = FALSE
    /\ renderLoopActive = FALSE
    /\ lastLandmarks = NULL
    /\ landmarkHistory = << >>
    /\ emaLandmarks = NULL
    /\ lastProcessedSkin = NoBuffer
    /\ lastFrameTime = 0
    /\ faceMeshFailCount = 0
    /\ videoReady = FALSE
    /\ now = InitDelayMs
    /\ haveCurrentData = TRUE
    /\ hasWidth = TRUE
    /\ hasHeight = TRUE
    /\ rafQueue = {}
    /\ canvas = Unpainted
    /\ inFlight = 0
    /\ consecutiveRejects = 0
    /\ loopStarted = FALSE
    /\ degraded = FALSE
    /\ smoothCall = NoCall
    /\ renderClock = NoRender
    /\ sendClock = NoSend
    /\ page = NoPage

InitWhole ==
    /\ frame \in [originalData : WholePixels]
    /\ out = NotApplied
    /\ VideoDelivering

CallApplyUVFilterToEntireFrame ==
    /\ out = NotApplied
    /\ CommitObject(applyUVFilterToEntireFrame(Cur))
    /\ out' = [data |-> applyUVFilterToEntireFramePixel(frame.originalData)]
    /\ UNCHANGED << frame, smoothCall, renderClock, sendClock, page >>

NextWhole == CallApplyUVFilterToEntireFrame

SpecWhole == InitWhole /\ [][NextWhole]_vars

(***************************************************************************)
(* STEP 10 and STEP 11 of applyUVFilter, and the emitted-frame             *)
(* specification: one call of applyUVFilter(landmarks) on a frame whose    *)
(* camera pixels all have one colour, looked at in one pixel of the image  *)
(* handed to putImageData.  A buffer is a function of the pixel index      *)
(* p = y * width + x; element 4 p + c - 1 of the source's array is channel *)
(* c (1 red .. 4 alpha) of pixel p.                                        *)
(***************************************************************************)
\* finalImageData as STEP 9 leaves it (lines 1336-1364)
finalImageData(fr, w, h) ==
    [p \in 0..(w * h - 1) |->
        applyUVFilter(fr.landmarks, w, h, p % w, p \div w,
                      fr.originalData, fr.lastProcessedSkin).finalImageData]

\* the eyeMask and lipMask arrays of STEP 3 and STEP 4
eyeMaskData(fr, w, h) ==
    [p \in 0..(w * h - 1) |-> createEyeMask(fr.landmarks, w, h, p % w, p \div w)]
lipMaskData(fr, w, h) ==
    [p \in 0..(w * h - 1) |-> createLipMask(fr.landmarks, w, h, p % w, p \div w)]


\* The values a Uint8ClampedArray may keep of a double the source computes
\* with the weights of Math.exp and the distances of Math.sqrt, of which the
\* model keeps the real q: the nearest whole number; of a q exactly half-way
\* between two whole numbers either of them.
Uint8ClampNear(q) ==
    IF q.d = 2
    THEN {ToUint8Clamp(RatInt(q.n \div 2)), ToUint8Clamp(RatInt((q.n \div 2) + 1))}
    ELSE {ToUint8Clamp(q)}

\* the sum of channel c of the pixels of data with an index in pixels
RECURSIVE SumChannel(_, _, _)
SumChannel(data, pixels, c) ==
    IF pixels = {} THEN 0
    ELSE LET q == CHOOSE q \in pixels : TRUE
         IN data[q][c] + SumChannel(data, pixels \ {q}, c)

\* applySubtleGlobalSoftness(imageData, eyeMask, lipMask) (lines 2021-2063):
\* the values of element e of imageData.data after the pass; data is the buffer before it
\* (tempData).  radius = 1.5, so the loops run over y = k + 1/2, k = 1..h - 3,
\* and x = j + 1/2, j = 1..w - 3.  In such an iteration
\*   idx = (y * width + x) * 4 = 4 (k w + j) + 2 w + 2 is a whole number: the
\*     iteration writes the elements idx, idx + 1 and idx + 2;
\*   maskIdx = y * width + x = k w + j + (w + 1) / 2 is a whole number only for
\*     an odd width: for an even width eyeMask[maskIdx] and lipMask[maskIdx]
\*     are undefined, and eyeValue = lipValue = 0;
\*   dy and dx run over -3/2, -1/2, 1/2, 3/2, and dist <= radius keeps the
\*     offsets with dx^2 + dy^2 <= 9/4; the pixel read is (x + dx, y + dy);
\*   the kept offsets are all at one distance, so their weights are equal and
\*     rSum / count is the mean of the pixels read.
\* No element is written by two iterations, so data[idx] on the right-hand
\* side is the value before the pass.
softenedElement(data, w, h, eyeMask, lipMask, e) ==
    LET old == data[e \div 4][(e % 4) + 1]
        off == (e - 2 * w - 2) % 4
        m == (e - off - 2 * w - 2) \div 4
        k == m \div w
        j == m % w
        maskIdx2 == 2 * (k * w + j) + w + 1
        eyeValue == IF maskIdx2 % 2 = 0 THEN eyeMask[maskIdx2 \div 2] ELSE MaskZero
        lipValue == IF maskIdx2 % 2 = 0 THEN lipMask[maskIdx2 \div 2] ELSE MaskZero
        halves == {-3, -1, 1, 3}
        kept == {d \in halves \X halves : d[1] * d[1] + d[2] * d[2] <= 9}
        read == {(k + ((1 + d[2]) \div 2)) * w + (j + ((1 + d[1]) \div 2)) : d \in kept}
        mean == Rat(SumChannel(data, read, off + 1), Cardinality(read))
    IN IF /\ off <= 2
          /\ k >= 1 /\ k <= h - 3
          /\ j >= 1 /\ j <= w - 3
          /\ ~MaskAtLeast(eyeValue, Rat(5, 100))
          /\ ~MaskAtLeast(lipValue, Rat(5, 100))
          /\ kept # {}
       THEN Uint8ClampNear(RatAdd(RatMul(RatInt(old), Rat(9, 10)), RatMul(mean, Rat(1, 10))))
       ELSE {old}

\* the values of pixel p of imageData.data after applySubtleGlobalSoftness
applySubtleGlobalSoftness(data, w, h, eyeMask, lipMask, p) ==
    softenedElement(data, w, h, eyeMask, lipMask, 4 * p)
        \X softenedElement(data, w, h, eyeMask, lipMask, 4 * p + 1)
        \X softenedElement(data, w, h, eyeMask, lipMask, 4 * p + 2)
        \X softenedElement(data, w, h, eyeMask, lipMask, 4 * p + 3)

\* applySubtleVignette(imageData) (lines 2066-2084) on the pixel px at index p:
\* vignette = (dist / maxDist)^2 * 0.05, and each colour channel becomes
\* clamp(channel * (1 - vignette)); the values the pixel may have after it
applySubtleVignette(px, w, h, p) ==
    LET x == p % w
        y == p \div w
        centerX == Rat(w, 2)
        centerY == Rat(h, 2)
        sq(q) == RatMul(q, q)
        maxDist2 == RatAdd(sq(centerX), sq(centerY))
        dist2 == RatAdd(sq(RatSub(RatInt(x), centerX)), sq(RatSub(RatInt(y), centerY)))
        vignette == RatMul(RatDiv(dist2, maxDist2), Rat(5, 100))
        dim(v) == Uint8ClampNear(RatMax(RatZero, RatMin(RatInt(255),
                     RatMul(RatInt(v), RatSub(RatOne, vignette)))))
    IN dim(px[1]) \X dim(px[2]) \X dim(px[3]) \X {px[4]}

\* applyUVFilter(landmarks) through STEP 11 at pixel (x, y): the records of
\* applyUVFilter with the pixel after STEP 10 (softened) and the pixel handed to
\* putImageData (emitted)
applyUVFilterEmitted(fr, w, h, x, y) ==
    Let(applyUVFilter(fr.landmarks, w, h, x, y, fr.originalData, fr.lastProcessedSkin),
        LAMBDA at :
    Let(applySubtleGlobalSoftness(finalImageData(fr, w, h), w, h,
                                  eyeMaskData(fr, w, h), lipMaskData(fr, w, h),
                                  y * w + x),
        LAMBDA softenedPixels :
      {[lut |-> at.lut,
        backgroundMask |-> at.backgroundMask,
        eyeMask |-> at.eyeMask,
        lipMask |-> at.lipMask,
        featheredMask |-> at.featheredMask,
        finalImageData |-> at.finalImageData,
        softened |-> px[1],
        emitted |-> px[2]] :
          px \in UNION {{<< softened, emitted >> :
                           emitted \in applySubtleVignette(softened, w, h, y * w + x)} :
                        softened \in softenedPixels}}))

\* the pixels looked at: the left edge, the eye columns and the middle column;
\* the top rows, rows through eyes, nose and lips, and the bottom row
EmitXs == {0, 96, 128, 160}
EmitYs == {0, 1, 96, 104, 128, 184, 200, 255}

InitEmit ==
    /\ frame \in [landmarks : {FaceA, FaceNone}, x : EmitXs, y : EmitYs,
                  originalData : CameraPixels, lastProcessedSkin : {NULL}]
    /\ out = NotApplied
    /\ VideoDelivering

CallApplyUVFilterEmitted ==
    /\ out = NotApplied
    /\ CommitObject(applyUVFilterSched(Cur, frame.landmarks))
    /\ out' \in applyUVFilterEmitted(frame, width, height, frame.x, frame.y)
    /\ UNCHANGED << frame, smoothCall, renderClock, sendClock, page >>

NextEmit == CallApplyUVFilterEmitted

SpecEmit == InitEmit /\ [][NextEmit]_vars

(***************************************************************************)
(* The page specification: the script's two timers, the constructor, init  *)
(* and the camera request (lines 7-9, 36-130, 305-425, 2293-2356), followed *)
(* by the video's events and the render loops.  Nothing outside the page   *)
(* calls a method of the object.  A step works on the pair st = [s, pg] of *)
(* the object and the page; the page record holds                          *)
(*   instance, cameraInitialized   window.uvFilterInstance # null and      *)
(*                                 window.cameraInitialized                *)
(*   elements         the document has the video and the canvas element    *)
(*   FaceMeshDefined, CameraDefined  the MediaPipe globals are loaded      *)
(*   loadEvent        the window's load event has fired                    *)
(*   loadTimer, domTimer  the 100 ms timer of the load listener and of the *)
(*                    DOM-ready test is pending                            *)
(*   listeners        setupVideoListeners has run                          *)
(*   getUserMedia     "none", "pending", "granted" or "denied"             *)
(*   srcObject        the video has the camera stream                      *)
(*   metadata         "none", or how loadedmetadata fired: "valid", "zero" *)
(*   inits, requests, setups  calls of init, of getUserMedia and of        *)
(*                    setupFaceMesh so far                                 *)
(*   skipped          a constructor call has returned at its instance test *)
(***************************************************************************)
\* new UVFaceFilter() calls the model follows
MaxConstructions == 3

\* the page when the script has run; domReady: document.readyState was
\* 'complete' or 'interactive' then (line 2343)
ScriptLoaded(domReady, elements, FaceMeshDefined, CameraDefined) ==
    [instance |-> FALSE, cameraInitialized |-> FALSE, elements |-> elements,
     FaceMeshDefined |-> FaceMeshDefined, CameraDefined |-> CameraDefined,
     loadEvent |-> FALSE, loadTimer |-> FALSE, domTimer |-> domReady,
     listeners |-> FALSE, getUserMedia |-> "none", srcObject |-> FALSE,
     metadata |-> "none", inits |-> 0, requests |-> 0, setups |-> 0,
     skipped |-> FALSE]

\* init() (lines 305-425) up to its await of getUserMedia
init(st, ctorThrows) ==
    LET pg == [st.pg EXCEPT !.inits = @ + 1]
    IN IF pg.cameraInitialized
       THEN IF pg.srcObject
            THEN [s |-> setupFaceMesh(
                          startImmediateFallback([st.s EXCEPT !.videoReady = TRUE]),
                          pg.FaceMeshDefined, pg.CameraDefined, ctorThrows),
                  pg |-> [pg EXCEPT !.listeners = TRUE, !.setups = @ + 1]]
            ELSE [s |-> st.s, pg |-> pg]
       ELSE [s |-> st.s,
             pg |-> [pg EXCEPT !.listeners = TRUE,
                               !.requests = @ + 1,
                               !.getUserMedia = "pending"]]

\* the constructor without its instance test
constructor_NoGuard(st, ctorThrows) ==
    LET registered == [st EXCEPT !.pg.instance = TRUE]
    IN IF ~st.pg.elements THEN registered ELSE init(registered, ctorThrows)

\* constructor() (lines 37-130)
constructor(st, ctorThrows) ==
    IF st.pg.instance
    THEN [st EXCEPT !.pg.skipped = TRUE]
    ELSE LET registered == [st EXCEPT !.pg.instance = TRUE]
         IN IF ~st.pg.elements THEN registered ELSE init(registered, ctorThrows)

\* the load listener of the window (lines 2296-2340)
onLoad(st) ==
    IF st.pg.instance
    THEN [st EXCEPT !.pg.loadEvent = TRUE]
    ELSE [st EXCEPT !.pg.loadEvent = TRUE, !.pg.loadTimer = TRUE]

\* the timer of the DOM-ready test (lines 2345-2355)
onDomTimer(st, ctorThrows) ==
    LET st1 == [st EXCEPT !.pg.domTimer = FALSE]
    IN IF ~st1.pg.instance THEN constructor(st1, ctorThrows) ELSE st1

\* init() from its await of getUserMedia on (lines 352-424)
getUserMediaSettled(st, granted) ==
    IF granted
    THEN [st EXCEPT !.pg.getUserMedia = "granted",
                    !.pg.cameraInitialized = TRUE,
                    !.pg.srcObject = TRUE]
    ELSE [s |-> activateHardFallback(st.s, FALSE),
          pg |-> [st.pg EXCEPT !.getUserMedia = "denied"]]

CurPage == [s |-> Cur, pg |-> page]

CommitPage(st) ==
    /\ CommitObject(st.s)
    /\ page' = st.pg
    /\ UNCHANGED << frame, out, smoothCall, renderClock, sendClock >>

InitPage ==
    /\ Constructed
    /\ frame = NoFrame
    /\ out = NotApplied
    /\ smoothCall = NoCall
    /\ renderClock = NoRender
    /\ sendClock = NoSend
    /\ page \in {ScriptLoaded(domReady, elements, FaceMeshDefined, CameraDefined) :
                    domReady \in BOOLEAN, elements \in BOOLEAN,
                    FaceMeshDefined \in BOOLEAN, CameraDefined \in BOOLEAN}

WindowLoad ==
    /\ ~page.loadEvent
    /\ CommitPage(onLoad(CurPage))

LoadTimer ==
    /\ page.loadTimer
    /\ \E ctorThrows \in BOOLEAN :
          CommitPage(constructor([CurPage EXCEPT !.pg.loadTimer = FALSE], ctorThrows))

DomTimer ==
    /\ page.domTimer
    /\ \E ctorThrows \in BOOLEAN : CommitPage(onDomTimer(CurPage, ctorThrows))

\* any other `new UVFaceFilter()' of the page
NewUVFaceFilter ==
    /\ page.inits < MaxConstructions
    /\ \E ctorThrows \in BOOLEAN : CommitPage(constructor(CurPage, ctorThrows))

GetUserMediaSettles ==
    /\ page.getUserMedia = "pending"
    /\ \E granted \in BOOLEAN : CommitPage(getUserMediaSettled(CurPage, granted))

\* the video fires loadedmetadata, once for its stream
LoadedMetadataOfStream ==
    /\ page.listeners /\ page.srcObject /\ page.metadata = "none"
    /\ \E valid \in BOOLEAN :
          CommitPage([s |-> onLoadedMetadata(Cur, valid, valid),
                      pg |-> [page EXCEPT !.metadata = IF valid THEN "valid" ELSE "zero"]])

VideoErrorOfStream ==
    /\ page.listeners /\ page.srcObject
    /\ Commit(onVideoError(Cur))

VideoOfStreamHasData ==
    /\ page.srcObject
    /\ VideoHasData

NextPage ==
    \/ WindowLoad
    \/ LoadTimer
    \/ DomTimer
    \/ NewUVFaceFilter
    \/ GetUserMediaSettles
    \/ LoadedMetadataOfStream
    \/ VideoErrorOfStream
    \/ VideoOfStreamHasData
    \/ AnimationFrame
    \/ AdvanceTime

SpecPage == InitPage /\ [][NextPage]_vars

\* the page, its timers, the camera request and the browser keep going
SpecPageLive == SpecPage /\ WF_vars(NextPage)

(***************************************************************************)
(* The admission specification: the scheduler with a finer clock and a     *)
(* clock for the calls of faceMesh.send() that onFrame makes:              *)
(*   age    the time since the last call, counted up to frameInterval,     *)
(*   early  a call was made less than frameInterval after the one before,  *)
(*   sends  the calls so far, counted up to two.                           *)
(***************************************************************************)
\* rejected send() calls the model follows
MaxAdmitRejects == 1

\* the times between two ticks of the camera utility or the display, in ms
AdmitMs == {10, 25}

\* onFrame has called faceMesh.send()
Sent(s) == s.inFlight > inFlight

CameraFrameAdmitted ==
    /\ camera = "running"
    /\ LET s == onFrame(Cur)
       IN /\ CommitObject(s)
          /\ sendClock' =
                IF Sent(s)
                THEN [age |-> 0,
                      early |-> sendClock.early \/
                                (sendClock.sends > 0 /\ BelowFrameInterval(sendClock.age)),
                      sends |-> IF sendClock.sends < 2 THEN sendClock.sends + 1 ELSE 2]
                ELSE sendClock
    /\ UNCHANGED << frame, out, smoothCall, renderClock, page >>

\* d ms pass
AdvanceTimeAdmitted ==
    \E d \in AdmitMs :
        /\ CommitObject([Cur EXCEPT !.lastFrameTime = Rebase(@, d),
                                    !.rafQueue = {[cb EXCEPT !.last = Rebase(@, d)] : cb \in @}])
        /\ sendClock' = [sendClock EXCEPT
                            !.age = IF BelowFrameInterval(@) THEN @ + d ELSE @]
        /\ UNCHANGED << frame, out, smoothCall, renderClock, page >>

SendRejectsAdmitted ==
    /\ inFlight > 0
    /\ faceMeshFailCount < MaxAdmitRejects
    /\ Commit(sendRejected(Cur))

NextAdmit ==
    \/ LoadedMetadata
    \/ VideoHasData
    \/ CallSetupFaceMesh
    \/ CameraFrameAdmitted
    \/ SendResolves
    \/ SendRejectsAdmitted
    \/ AnimationFrame
    \/ AdvanceTimeAdmitted

SpecAdmit == Init /\ [][NextAdmit]_vars

(***************************************************************************)
(* The hold specification: the scheduler with the last detector result     *)
(* kept in `out':                                                          *)
(*   face        it had a face,                                            *)
(*   held        lastLandmarks was non-null when it came,                  *)
(*   toFallback  its handler has set fallbackActive,                       *)
(*   same        its handler has left the pose and the render loop alone.  *)
(***************************************************************************)
\* the pose and the render loop of the object state s
Held(s) ==
    [fallbackActive |-> s.fallbackActive,
     lastLandmarks |-> s.lastLandmarks,
     emaLandmarks |-> s.emaLandmarks,
     renderLoopActive |-> s.renderLoopActive,
     animationFrame |-> s.animationFrame,
     rafQueue |-> s.rafQueue]

SendResolvesHeld ==
    \E results \in {NULL} \cup RawSets :
        /\ inFlight > 0
        /\ results # NULL => Len(landmarkHistory) < MaxSmoothings
        /\ LET s == sendResolved(Cur, results)
           IN /\ CommitObject(s)
              /\ out' = [face |-> results # NULL,
                          held |-> lastLandmarks # NULL,
                          toFallback |-> ~fallbackActive /\ s.fallbackActive,
                          same |-> Held(s) = Held(Cur)]
        /\ UNCHANGED << frame, smoothCall, renderClock, sendClock, page >>

NextHold ==
    \/ LoadedMetadata
    \/ VideoError
    \/ VideoHasData
    \/ CallStartImmediateFallback
    \/ CallActivateHardFallback
    \/ CallSetupFaceMesh
    \/ CameraFrame
    \/ SendResolvesHeld
    \/ SendRejects
    \/ AnimationFrame
    \/ AdvanceTime

SpecHold == Init /\ [][NextHold]_vars

(***************************************************************************)
(* The stream specification: the scheduler of an object whose camera       *)
(* request was granted (lines 352-380).  `page' holds the stream:          *)
(*   cameraStream  this.cameraStream is the stream,                        *)
(*   streamActive  this.streamActive,                                      *)
(*   srcObject     video.srcObject is the stream,                          *)
(*   tracksLive    no track of the stream has been stopped.                *)
(* `out' keeps, of the last activateHardFallback call, its stopMediaPipeOnly, *)
(* whether it left the stream as it was, and whether it stopped the        *)
(* MediaPipe Camera utility.                                               *)
(***************************************************************************)
StreamGranted ==
    [cameraStream |-> TRUE, streamActive |-> TRUE, srcObject |-> TRUE,
     tracksLive |-> TRUE]

\* the reason strings of the call sites (lines 423, 477, 508, 720, 724, 732)
Reasons ==
    {"getUserMedia failed", "Video dimensions are zero", "Video error event",
     "Invalid video dimensions for Camera", "Camera utility not available",
     "setupFaceMesh error"}

\* activateHardFallback that releases the camera, as the comment of lines
\* 2826-2829 forbids: stream.getTracks().forEach(track => track.stop()) and
\* video.srcObject = null
activateHardFallbackOfStream_ReleasesCamera(st, reason, stopMediaPipeOnly) ==
    [s |-> activateHardFallback(st.s, stopMediaPipeOnly),
     pg |-> [st.pg EXCEPT !.tracksLive = FALSE, !.srcObject = FALSE]]

\* activateHardFallback(reason, stopMediaPipeOnly) (lines 875-951) on the pair
\* st = [s, pg] of the object and its stream: the reason is logged only, and
\* no statement of the method writes cameraStream, streamActive or
\* video.srcObject or calls a method of a track
activateHardFallbackOfStream(st, reason, stopMediaPipeOnly) ==
    [s |-> activateHardFallback(st.s, stopMediaPipeOnly),
     pg |-> st.pg]

InitStream ==
    /\ Constructed
    /\ frame = NoFrame
    /\ out = NotApplied
    /\ smoothCall = NoCall
    /\ renderClock = NoRender
    /\ sendClock = NoSend
    /\ page = StreamGranted

CallActivateHardFallbackOfStream ==
    \E reason \in Reasons, stopMediaPipeOnly \in BOOLEAN :
        LET st == activateHardFallbackOfStream([s |-> Cur, pg |-> page], reason,
                                               stopMediaPipeOnly)
        IN /\ CommitObject(st.s)
           /\ page' = st.pg
           /\ out' = [stopMediaPipeOnly |-> stopMediaPipeOnly,
                       streamKept |-> st.pg = page,
                       cameraStopped |-> camera = "running" /\ st.s.camera = "stopped"]
           /\ UNCHANGED << frame, smoothCall, renderClock, sendClock >>

\* the detector's traffic is left out: no result or error of send() reaches the
\* stream
NextStream ==
    \/ LoadedMetadata
    \/ VideoError
    \/ VideoHasData
    \/ CallStartImmediateFallback
    \/ CallActivateHardFallbackOfStream
    \/ CallSetupFaceMesh
    \/ AnimationFrame
    \/ AdvanceTime

SpecStream == InitStream /\ [][NextStream]_vars

(***************************************************************************)
(* The setup specification: the scheduler with setupFaceMesh called any    *)
(* number of times, the detector's traffic left out.  `page' counts the    *)
(* FaceMesh and the Camera instances constructed so far; `out' keeps, of   *)
(* the last setupFaceMesh call, whether this.faceMesh was set when it came *)
(* and whether it left the object as it was.                               *)
(***************************************************************************)
NoInstances == [faceMeshes |-> 0, cameras |-> 0]

InitSetup ==
    /\ Constructed
    /\ frame = NoFrame
    /\ out = NotApplied
    /\ smoothCall = NoCall
    /\ renderClock = NoRender
    /\ sendClock = NoSend
    /\ page = NoInstances

CallSetupFaceMeshCounted ==
    \E FaceMeshDefined \in BOOLEAN, CameraDefined \in BOOLEAN, ctorThrows \in BOOLEAN :
        LET s == setupFaceMesh(Cur, FaceMeshDefined, CameraDefined, ctorThrows)
        IN /\ CommitObject(s)
           /\ page' = [faceMeshes |-> page.faceMeshes + s.created.faceMesh,
                        cameras |-> page.cameras + s.created.camera]
           /\ out' = [hadFaceMesh |-> faceMesh, same |-> s = Cur]
           /\ UNCHANGED << frame, smoothCall, renderClock, sendClock >>

NextSetup ==
    \/ LoadedMetadata
    \/ VideoError
    \/ VideoHasData
    \/ CallStartImmediateFallback
    \/ CallActivateHardFallback
    \/ CallSetupFaceMeshCounted
    \/ AnimationFrame
    \/ AdvanceTime

SpecSetup == InitSetup /\ [][NextSetup]_vars

(***************************************************************************)
(* The region specification: one mask builder called with a landmark list  *)
(* shorter than the 468 landmarks the region lists index, looked at in one *)
(* pixel.  `out' keeps the index lists the builder has filtered, each with *)
(* the indices it went on to read, and the mask value.                     *)
(***************************************************************************)
\* landmarks.length
LandmarkCounts == {0, 1, 10, 34, 153, 324, 467}
\* the first n landmarks of the face
FaceOfLength(n) == [k \in 1..n |-> faceLandmark(k - 1)]

MaskBuilders ==
    {"createSkinMask", "createPersonMask", "createStrictBinarySkinMask",
     "createHairMask", "createEyeMask", "createLipMask", "createEyebrowMask",
     "applyFeatherToMask"}

\* the index lists the builder filters with idx < landmarks.length, in the
\* order of the code; createStrictBinarySkinMask calls the four exclusion
\* builders only when a point of the face outline is left (line 1507)
filteredLists(builder, lms) ==
    CASE builder = "createSkinMask" -> << skinLandmarks >>
      [] builder = "createPersonMask" -> << faceOutlineIndices >>
      [] builder = "createStrictBinarySkinMask" ->
            IF Len(keptIndices(faceOutlineIndices, lms)) = 0
            THEN << faceOutlineIndices >>
            ELSE << faceOutlineIndices,
                    eyeLandmarks.left \o eyeLandmarks.right,
                    lipLandmarks,
                    eyebrowLandmarks.left \o eyebrowLandmarks.right,
                    hairlineIndices >>
      [] builder = "createHairMask" -> << hairlineIndices >>
      [] builder = "createEyeMask" -> << eyeLandmarks.left \o eyeLandmarks.right >>
      [] builder = "createLipMask" -> << lipLandmarks >>
      [] builder = "createEyebrowMask" ->
            << eyebrowLandmarks.left \o eyebrowLandmarks.right >>
      [] builder = "applyFeatherToMask" ->
            << jawlineIndices, featherHairlineIndices, cheekIndices >>

\* the builder's mask at pixel (x, y); applyFeatherToMask is given the strict
\* binary skin mask, as in applyUVFilter (line 1219)
builtMask(builder, lms, w, h, x, y) ==
    CASE builder = "createSkinMask" -> createSkinMask(lms, w, h, x, y)
      [] builder = "createPersonMask" -> createPersonMask(lms, w, h, x, y)
      [] builder = "createStrictBinarySkinMask" ->
            createStrictBinarySkinMask(lms, w, h, x, y)
      [] builder = "createHairMask" -> createHairMask(lms, w, h, x, y)
      [] builder = "createEyeMask" -> createEyeMask(lms, w, h, x, y)
      [] builder = "createLipMask" -> createLipMask(lms, w, h, x, y)
      [] builder = "createEyebrowMask" -> createEyebrowMask(lms, w, h, x, y)
      [] builder = "applyFeatherToMask" ->
            applyFeatherToMask(createStrictBinarySkinMask(lms, w, h, x, y))

\* pixels of the eye, of the cheek, of the nose tip and one the step-2 grid of
\* createSkinMask leaves unwritten; at each the exact distances to the skin
\* polygon stay within the integers of the model checker
RegionPixels == { << 97, 111 >>, << 128, 111 >>, << 128, 140 >>, << 129, 141 >> }

InitRegion ==
    /\ \E n \in LandmarkCounts, builder \in MaskBuilders, p \in RegionPixels :
          frame = [landmarks |-> FaceOfLength(n), builder |-> builder,
                   x |-> p[1], y |-> p[2]]
    /\ out = NotApplied
    /\ VideoDelivering

CallMaskBuilder ==
    /\ out = NotApplied
    /\ LET lists == filteredLists(frame.builder, frame.landmarks)
           filtered == [k \in 1..Len(lists) |->
                          [indices |-> lists[k],
                           kept |-> keptIndices(lists[k], frame.landmarks)]]
       IN out' = [filtered |-> filtered,
                  \* landmarks[idx].x of an idx past the end is a TypeError
                  threw |-> \E k \in 1..Len(filtered) :
                               \E j \in 1..Len(filtered[k].kept) :
                                  filtered[k].kept[j] >= Len(frame.landmarks),
                  mask |-> builtMask(frame.builder, frame.landmarks, width, height,
                                     frame.x, frame.y)]
    /\ UNCHANGED << faceMesh, camera, mediaPipeReady, isProcessing, animationFrame,
                    fallbackActive, renderLoopActive, lastLandmarks, landmarkHistory,
                    emaLandmarks, lastProcessedSkin, lastFrameTime, faceMeshFailCount,
                    videoReady, now, haveCurrentData, hasWidth, hasHeight, rafQueue, canvas,
                    inFlight, consecutiveRejects, loopStarted, degraded,
                    frame, smoothCall, renderClock, sendClock, page >>

NextRegion == CallMaskBuilder

SpecRegion == InitRegion /\ [][NextRegion]_vars

(***************************************************************************)
(* The remap specification: one call applyUVLUT(r, g, b, type) on a colour *)
(* of the channel levels and a region type; "other" is any type the switch *)
(* has no case for.                                                        *)
(***************************************************************************)
RegionTypes == {"skin", "eye", "lip", "hair", "other"}

InitLut ==
    /\ Constructed
    /\ frame \in [r : ChannelLevels, g : ChannelLevels, b : ChannelLevels,
                  type : RegionTypes]
    /\ out = NotApplied
    /\ smoothCall = NoCall
    /\ renderClock = NoRender
    /\ sendClock = NoSend
    /\ page = NoPage

CallApplyUVLUT ==
    /\ out = NotApplied
    /\ out' = applyUVLUT(frame.r, frame.g, frame.b, frame.type)
    /\ UNCHANGED << faceMesh, camera, mediaPipeReady, isProcessing, animationFrame,
                    fallbackActive, renderLoopActive, lastLandmarks, landmarkHistory,
                    emaLandmarks, lastProcessedSkin, lastFrameTime, faceMeshFailCount,
                    videoReady, now, haveCurrentData, hasWidth, hasHeight, rafQueue, canvas,
                    inFlight, consecutiveRejects, loopStarted, degraded,
                    frame, smoothCall, renderClock, sendClock, page >>

NextLut == CallApplyUVLUT

SpecLut == InitLut /\ [][NextLut]_vars

(***************************************************************************)
(* Steps of the detector, named for the properties below.                  *)
(***************************************************************************)
\* send() resolves with a face
FaceResult == \E results \in RawSets : SendResolvesWith(results)

\* send() resolves with a face and processFrame handles it without an error
FaceProcessed ==
    \E results \in RawSets :
        /\ SendResolvesWith(results)
        /\ ~smoothLandmarks(Cur, results).threw

\* send() resolves without a face
NoFaceResult == SendResolvesWith(NULL)

TrackingNow == ~fallbackActive /\ lastLandmarks # NULL

(***************************************************************************)
(* C1.  Once a render loop has been started, a requestAnimationFrame       *)
(* render callback is pending in every later state, whatever detector      *)
(* results, send() errors and fallback calls follow.                       *)
(***************************************************************************)
C1_RenderCallbackPending == loopStarted => rafQueue # {}

(***************************************************************************)
(* C2.  A frame drawn by a render-loop tick that began while tracking      *)
(* (fallbackActive false, lastLandmarks held) is the masked pipeline's,    *)
(* drawn with the held landmarks; the whole-frame fallback is drawn by a   *)
(* tick only when the tick began with fallback active or no landmarks.     *)
(***************************************************************************)
C2_TrackingDrawsMasked ==
    canvas.byLoop =>
        /\ canvas.tracking => (canvas.pipeline = "masked" /\ canvas.usesLast)
        /\ canvas.pipeline = "whole" => ~canvas.tracking

(***************************************************************************)
(* C3 as claimed.  Once the failure threshold has forced fallback,         *)
(* fallbackActive stays true in every step (the class has no reset).       *)
(***************************************************************************)
C3_DegradedLatched == [][(degraded /\ fallbackActive) => fallbackActive']_vars

(***************************************************************************)
(* C3 as amended.  Once the failure threshold has forced fallback,         *)
(* fallbackActive stays true through every step except a send() that       *)
(* resolves with a face; a face that processFrame handles without an error *)
(* always sets fallbackActive to false again (automatic recovery).         *)
(***************************************************************************)
C3_DegradedRecoversOnFace ==
    [][(degraded /\ fallbackActive) =>
          /\ FaceProcessed => ~fallbackActive'
          /\ ~fallbackActive' => FaceResult]_vars

\* the detector has degraded, a face has come since, and the masked frame is drawn
C3_Witness == degraded /\ ~fallbackActive /\ canvas.pipeline = "masked"

(***************************************************************************)
(* C4.  faceMeshFailCount is the number of send() calls rejected since the *)
(* last resolved one (a no-face result resolves and resets it); a rejected *)
(* send() leaves fallbackActive true exactly when it was true before or    *)
(* the run of rejections has reached 5; a no-face result changes neither   *)
(* fallbackActive nor counts as a failure.                                 *)
(***************************************************************************)
C4_OnlyConsecutiveErrorsDegrade ==
    /\ [](faceMeshFailCount = consecutiveRejects)
    /\ [][SendRejects =>
            (fallbackActive' <=> (fallbackActive \/ consecutiveRejects' >= 5))]_vars
    /\ [][NoFaceResult =>
            (fallbackActive' = fallbackActive /\ faceMeshFailCount' = 0)]_vars

\* the fifth rejection in a row has just forced fallback
C4_Witness ==
    /\ consecutiveRejects = 5
    /\ faceMeshFailCount = 5
    /\ fallbackActive
    /\ degraded
    /\ lastLandmarks # NULL

(***************************************************************************)
(* C5.  At most one faceMesh.send() is outstanding, and isProcessing is    *)
(* true exactly while one is.                                              *)
(***************************************************************************)
C5_SingleInFlight == inFlight <= 1 /\ (isProcessing <=> inFlight = 1)

\* a send() is outstanding after an earlier one resolved with a face and a later
\* one was rejected
C5_Witness ==
    /\ inFlight = 1
    /\ isProcessing
    /\ consecutiveRejects > 0
    /\ lastLandmarks # NULL

(***************************************************************************)
(* C7.  A step that (re)acquires tracking starts a fresh session: the EMA  *)
(* state after it is the raw landmark set of the detector result verbatim, *)
(* and the skin colours it stores were not blended with an older buffer.   *)
(***************************************************************************)
C7_SessionStateReset ==
    [][(~TrackingNow /\ TrackingNow') =>
          /\ \E results \in RawSets :
                SendResolvesWith(results) /\ emaLandmarks' = results
          /\ lastProcessedSkin' # lastProcessedSkin => lastProcessedSkin' = "fresh"]_vars

(***************************************************************************)
(* Properties of the pixel pipeline, under SpecFrame.                      *)
(***************************************************************************)
Applied == out # NotApplied

\* the pixel is inside the face-outline polygon
FacePixel ==
    isPointInPolygon(frame.x, frame.y,
                     polygonPoints(faceOutlineIndices, frame.landmarks, width, height))

EyeAbove == MaskAbove(out.eyeMask, Rat(1, 10))
LipAbove == MaskAbove(out.lipMask, Rat(1, 10))
EyebrowAbove ==
    MaskAbove(createEyebrowMask(frame.landmarks, width, height, frame.x, frame.y), Rat(1, 10))
HairAbove ==
    MaskAbove(createHairMask(frame.landmarks, width, height, frame.x, frame.y), Rat(3, 10))

\* C6: region priority.  Every face pixel whose eye mask exceeds 0.1 is
\* remapped as 'eye'; otherwise every face pixel whose lip mask exceeds 0.1 is
\* remapped as 'lip'; only the remaining pixels are remapped as 'skin'.
C6_RegionPriority ==
    (Applied /\ FacePixel) =>
        /\ EyeAbove => out.lut = "eye"
        /\ (~EyeAbove /\ LipAbove) => out.lut = "lip"
        /\ out.lut = "skin" => (~EyeAbove /\ ~LipAbove)

\* C8: compositing rule of STEP 9 (lines 1336-1364), for the pixel looked at.
\* If featheredMask[idx] > 0 the output colour is
\* lerp(processedBackgroundData, processedSkinData, featheredMask[idx]), each
\* channel stored in the Uint8ClampedArray of the ImageData; else if
\* backgroundMask[idx] > 0.5 the output is the processed background; else
\* (person but not skin) the output is the original pixel unchanged.  The
\* alpha is the original's in all three branches.  The three arrays and the
\* two masks are the ones the call built (kept in `out'), the original pixel
\* the one the call was given (kept in `frame').
C8_CompositingRule ==
    Applied =>
        LET original == frame.originalData
            bg == out.processedBackgroundData
            skin == out.processedSkinData
            mask == out.featheredMask
        IN IF MaskPositive(mask)
           THEN out.finalImageData =
                   << ToUint8Clamp(lerp(bg[1], skin[1], mask)),
                      ToUint8Clamp(lerp(bg[2], skin[2], mask)),
                      ToUint8Clamp(lerp(bg[3], skin[3], mask)),
                      original[4] >>
           ELSE IF MaskAbove(out.backgroundMask, Rat(1, 2))
           THEN out.finalImageData = << bg[1], bg[2], bg[3], original[4] >>
           ELSE out.finalImageData = original

\* a skin pixel (feathered mask 1): the output is the processed skin, which
\* is neither the processed background nor the original pixel
C8_Witness ==
    /\ Applied
    /\ MaskPositive(out.featheredMask)
    /\ out.finalImageData = out.processedSkinData
    /\ out.finalImageData # out.processedBackgroundData
    /\ out.finalImageData # frame.originalData

\* C9: createStrictBinarySkinMask (lines 1487-1535) returns a binary mask.
\* The value at the pixel is 1 if and only if the pixel is inside the
\* face-outline polygon and eyeMask <= 0.1, lipMask <= 0.1, eyebrowMask <= 0.1
\* and hairMask <= 0.3 at that pixel; otherwise it is 0, and no other value
\* occurs.  The eye and lip masks are the ones the call built; the eyebrow and
\* hair masks, which applyUVFilter does not keep, are built again from the
\* frame.  Each comparison is on the Float32Array element, as in the code.
C9_StrictBinarySkinMask ==
    Applied =>
        /\ out.binarySkinMask \in {MaskZero, MaskOne}
        /\ out.binarySkinMask = MaskOne <=>
              (FacePixel /\ ~EyeAbove /\ ~LipAbove /\ ~EyebrowAbove /\ ~HairAbove)

\* a face pixel the lips alone keep out of the skin mask
C9_Witness ==
    /\ Applied
    /\ FacePixel /\ LipAbove /\ ~EyeAbove /\ ~EyebrowAbove /\ ~HairAbove
    /\ out.binarySkinMask = MaskZero

\* C10: mask range.  Every value of every mask produced (skin, eye, lip,
\* eyebrow, hair, person, background, feathered skin) lies in [0, 1]: the
\* person, background, strict skin, eye, lip and feathered skin masks that
\* applyUVFilter built for the frame, and the eyebrow and hair masks that
\* createStrictBinarySkinMask builds from the same landmarks and does not
\* return.  MaskInUnit is on the real the code stores; 0 and 1 are float32
\* and the rounding to float32 keeps the order, so the Float32Array element
\* is in [0, 1] with it.
C10_MasksInUnitRange ==
    Applied =>
        /\ MaskInUnit(out.personMask)
        /\ MaskInUnit(out.backgroundMask)
        /\ MaskInUnit(out.binarySkinMask)
        /\ MaskInUnit(out.eyeMask)
        /\ MaskInUnit(out.lipMask)
        /\ MaskInUnit(createEyebrowMask(frame.landmarks, width, height, frame.x, frame.y))
        /\ MaskInUnit(createHairMask(frame.landmarks, width, height, frame.x, frame.y))
        /\ MaskInUnit(out.featheredMask)

\* a pixel between 25 and 30 pixels from the eyes, where 1 - dist / 25 is
\* negative, has eye mask 0
C10_Witness ==
    /\ Applied
    /\ LET dist == distanceToPolygon(frame.x, frame.y,
                       polygonPoints(eyeLandmarks.left \o eyeLandmarks.right,
                                     frame.landmarks, width, height))
       IN DistBelow(dist, 30) /\ ~DistBelow(dist, 25)
    /\ out.eyeMask = MaskZero

(***************************************************************************)
(* Properties of smoothLandmarks, under SpecSmooth.                        *)
(***************************************************************************)
Smoothed == smoothCall # NoCall
\* the call had no detection: null or an empty array (line 1042)
NoDetection == smoothCall.raw = NULL \/ smoothCall.raw = << >>

\* C11: when the raw landmark set is longer or shorter than the EMA state,
\* smoothLandmarks does not throw, returns the raw set unmodified and leaves
\* the length of the EMA state as it was.
C11_LengthMismatchGuarded ==
    (/\ Smoothed
     /\ ~NoDetection
     /\ smoothCall.before.ema # NULL
     /\ Len(smoothCall.raw) # Len(smoothCall.before.ema)) =>
        /\ ~smoothCall.threw
        /\ smoothCall.ret = smoothCall.raw
        /\ Len(smoothCall.after.ema) = Len(smoothCall.before.ema)

\* C12: with no detection smoothLandmarks returns null when there is no EMA
\* state and the last stabilized set otherwise, and leaves emaLandmarks,
\* lastLandmarks and landmarkHistory as they were.
C12_NoDetectionHoldsPose ==
    (Smoothed /\ NoDetection) =>
        /\ ~smoothCall.threw
        /\ smoothCall.before.ema = NULL => smoothCall.ret = NULL
        /\ smoothCall.before.ema # NULL =>
              (smoothCall.ret = smoothCall.before.ema /\ smoothCall.ret = smoothCall.before.last)
        /\ smoothCall.after = smoothCall.before
        /\ emaLandmarks = smoothCall.before.ema
        /\ lastLandmarks = smoothCall.before.last
        /\ landmarkHistory = smoothCall.before.history

\* the method was called with no detection after the EMA had been updated once,
\* and returned the stabilized set it holds
C12_Witness ==
    /\ Smoothed
    /\ smoothCall.raw = NULL
    /\ Len(smoothCall.before.history) = 1
    /\ smoothCall.ret # NULL
    /\ smoothCall.ret = smoothCall.before.history[1]

(***************************************************************************)
(* More properties of the pixel pipeline, under SpecFrame.                 *)
(***************************************************************************)
EyebrowMask == createEyebrowMask(frame.landmarks, width, height, frame.x, frame.y)
HairMask == createHairMask(frame.landmarks, width, height, frame.x, frame.y)

\* applyUVFilter was given a list with no landmark in it
EmptyLandmarks == Applied /\ frame.landmarks = FaceNone

\* C13 as claimed.  With an empty landmark list every mask (skin, eyes,
\* lips, eyebrows, hair, person and background) is 0 at every pixel.
C13_AllMasksZero ==
    EmptyLandmarks =>
        /\ out.binarySkinMask = MaskZero
        /\ out.eyeMask = MaskZero
        /\ out.lipMask = MaskZero
        /\ EyebrowMask = MaskZero
        /\ HairMask = MaskZero
        /\ out.personMask = MaskZero
        /\ out.backgroundMask = MaskZero

\* C13 as amended.  With an empty landmark list the skin, eye, lip, eyebrow,
\* hair and person masks are 0 at every pixel, and the background mask, the
\* inverse of the person mask, is 1 at every pixel.
C13_RegionMasksZeroBackgroundOne ==
    EmptyLandmarks =>
        /\ out.binarySkinMask = MaskZero
        /\ out.eyeMask = MaskZero
        /\ out.lipMask = MaskZero
        /\ EyebrowMask = MaskZero
        /\ HairMask = MaskZero
        /\ out.personMask = MaskZero
        /\ out.backgroundMask = MaskOne

\* with no landmark the whole frame is background: the pixel was darkened
C13_Witness ==
    /\ EmptyLandmarks
    /\ out.personMask = MaskZero
    /\ out.backgroundMask = MaskOne
    /\ out.lut = "none"
    /\ out.finalImageData # frame.originalData

\* the strict skin mask and the feathered mask of this call at pixel (x, y)
SkinMaskAt(x, y) == createStrictBinarySkinMask(frame.landmarks, width, height, x, y)
FeatheredMaskAt(x, y) == applyFeatherToMask(SkinMaskAt(x, y))

\* C14: whenever the binary skin mask has both 0 and 1 pixels, the feathered
\* mask has pixels whose weight is strictly between 0 and 1.
C14_FeatherSoftensEdge ==
    (/\ Applied
     /\ \E x \in PixelXs, y \in PixelYs : SkinMaskAt(x, y) = MaskOne
     /\ \E x \in PixelXs, y \in PixelYs : SkinMaskAt(x, y) = MaskZero) =>
        \E x \in PixelXs, y \in PixelYs :
            MaskPositive(FeatheredMaskAt(x, y)) /\ MaskBelowOne(FeatheredMaskAt(x, y))

\* C15: applyFeatherToMask leaves a pixel whose input value is exactly 0 or
\* exactly 1 unchanged; the output differs from the input only where the input
\* is strictly between 0 and 1.
C15_FeatherKeepsBinary ==
    Applied =>
        /\ out.binarySkinMask \in {MaskZero, MaskOne} =>
              out.featheredMask = out.binarySkinMask
        /\ out.featheredMask # out.binarySkinMask =>
              (MaskPositive(out.binarySkinMask) /\ MaskBelowOne(out.binarySkinMask))

\* a face pixel the exclusions keep out of the skin (input 0), passed through
\* at 0
C15_Witness ==
    /\ Applied
    /\ frame.landmarks = FaceA
    /\ out.binarySkinMask = MaskZero
    /\ out.featheredMask = MaskZero
    /\ FacePixel

(***************************************************************************)
(* Properties of the fallback loops.                                       *)
(***************************************************************************)
\* C18: the frames rendered once face detection has failed or cannot run
\* (which is when activateHardFallback is called) are the colour-inverted
\* fallback of the video: the canvas never shows the raw camera image.
C18_FallbackNeverRaw == fallbackActive => canvas.pipeline # "raw"

\* C20: in every render loop a tick draws a frame only if at least
\* frameInterval (1000 / 30 ms) has passed since a tick last drew one.
C20_FrameRateCapped == ~renderClock.early

(***************************************************************************)
(* Properties of the whole-frame fallback filter.                          *)
(***************************************************************************)
\* the source pixel is bright and of low saturation: (r + g + b) / 3 > 180 and
\* (max - min) / max < 0.3
BrightLowSaturation ==
    LET px == frame.originalData
        hi == Max3(px[1], px[2], px[3])
        lo == Min3(px[1], px[2], px[3])
    IN px[1] + px[2] + px[3] > 3 * 180 /\ 10 * (hi - lo) < 3 * hi

\* n is 3 q / 10 rounded to a whole number
NearestThreeTenths(n, q) == 3 * q - 5 <= 10 * n /\ 10 * n <= 3 * q + 5

\* C19 as stated: applyUVFilterToEntireFrame turns a bright pixel of low
\* saturation into black and every other pixel (r, g, b) into its plain
\* inversion (255 - r, 255 - g, 255 - b).
C19_PlainInversion ==
    Applied =>
        LET px == frame.originalData
        IN IF BrightLowSaturation
           THEN out.data = << 0, 0, 0, px[4] >>
           ELSE out.data = << 255 - px[1], 255 - px[2], 255 - px[3], px[4] >>

\* C19, amended: applyUVFilterToEntireFrame turns a bright pixel of low
\* saturation into black and every other pixel (r, g, b) into
\* (0.3 * (255 - g) rounded, 255 - g, 255 - b): green and blue are inverted,
\* red is replaced by three tenths of the inverted green.  Alpha is kept.
C19_InvertedGreenBlueOnly ==
    Applied =>
        LET px == frame.originalData
        IN /\ out.data[4] = px[4]
           /\ IF BrightLowSaturation
              THEN out.data[1] = 0 /\ out.data[2] = 0 /\ out.data[3] = 0
              ELSE /\ NearestThreeTenths(out.data[1], 255 - px[2])
                   /\ out.data[2] = 255 - px[2]
                   /\ out.data[3] = 255 - px[3]

\* a filtered pixel that is not sunscreen and whose inverted red differs from
\* three tenths of its inverted green
C19_Witness ==
    /\ Applied
    /\ ~BrightLowSaturation
    /\ ~NearestThreeTenths(255 - frame.originalData[1], 255 - frame.originalData[2])
    /\ out.data[2] = 255 - frame.originalData[2]

(***************************************************************************)
(* Properties of STEP 10 and STEP 11.                                      *)
(***************************************************************************)
\* C16: applySubtleGlobalSoftness keeps eyes and lips sharp: it changes no
\* channel of a pixel whose eye mask or lip mask is at least 0.05.
C16_EyesAndLipsKeptSharp ==
    (Applied /\ (\/ MaskAtLeast(out.eyeMask, Rat(5, 100))
                 \/ MaskAtLeast(out.lipMask, Rat(5, 100))))
        => out.softened = out.finalImageData

\* the pixel is of the person and not of the skin: skin mask 0, background mask 0
PersonNotSkin == Applied /\ out.featheredMask = MaskZero /\ out.backgroundMask = MaskZero

\* C17 as stated: for a pixel of the person that is not skin, the frame the
\* compositor produces (STEP 9 to STEP 11, handed to putImageData) has exactly
\* the original pixel value.
C17_EmittedKeepsOriginal == PersonNotSkin => out.emitted = frame.originalData

\* C17, amended: for a pixel of the person that is not skin, the composite of
\* STEP 9 has exactly the original pixel value (the softness pass and the
\* vignette that follow may change it).
C17_CompositeKeepsOriginal == PersonNotSkin => out.finalImageData = frame.originalData

\* a pixel of the person that is not skin, kept by STEP 9 and changed by the
\* passes after it
C17_Witness ==
    /\ PersonNotSkin
    /\ out.finalImageData = frame.originalData
    /\ out.emitted # frame.originalData

(***************************************************************************)
(* Properties of the page.                                                 *)
(***************************************************************************)
\* C21: face detection starts automatically: once getUserMedia has succeeded
\* and loadedmetadata has fired with non-zero dimensions, with FaceMesh and
\* Camera loaded, setupFaceMesh is eventually called and the detector started,
\* without any call from outside the page.
C21_DetectionStartsAutomatically ==
    (/\ page.getUserMedia = "granted"
     /\ page.metadata = "valid"
     /\ page.FaceMeshDefined /\ page.CameraDefined)
        ~> (page.setups > 0 /\ faceMesh /\ camera = "running")

\* C22: at most one UVFaceFilter instance runs init(), and getUserMedia is
\* called at most once, whatever the order of the load timer, the DOM-ready
\* timer and further `new UVFaceFilter()' calls, and also after the request
\* has failed.
C22_SingleInstanceSingleRequest == page.inits <= 1 /\ page.requests <= 1

\* the camera request has failed, and a later constructor call was turned away
C22_Witness ==
    /\ page.getUserMedia = "denied"
    /\ page.skipped
    /\ page.loadEvent /\ ~page.loadTimer /\ ~page.domTimer
    /\ page.inits = 1 /\ page.requests = 1

(***************************************************************************)
(* Properties of the EMA.                                                  *)
(***************************************************************************)
\* p <= q, by the least common denominator
RatNoMore(p, q) ==
    LET g == GCD(p.d, q.d) IN p.n * (q.d \div g) <= q.n * (p.d \div g)

\* |p - q|
RatDist(p, q) == LET r == RatSub(p, q) IN [n |-> Abs(r.n), d |-> r.d]

\* v is three quarters of e and one quarter of r
ThreeToOne(v, e, r) ==
    RatMul(RatInt(4), v) = RatAdd(RatMul(RatInt(3), e), r)

\* an EMA update: the state existed and the raw set has its length
EmaUpdate ==
    /\ smoothCall # NoCall
    /\ smoothCall.before.ema # NULL
    /\ Len(smoothCall.raw) = Len(smoothCall.before.ema)

\* C23: when EMA state exists and the raw set has the same length, the returned
\* landmark i is 0.75 * ema[i] + 0.25 * raw[i] on x and on y, and on z when z is
\* defined on both sides, else the raw z; the returned set is the new EMA state.
C23_EmaUpdate ==
    EmaUpdate =>
        /\ ~smoothCall.threw
        /\ Len(smoothCall.ret) = Len(smoothCall.raw)
        /\ smoothCall.after.ema = smoothCall.ret
        /\ \A i \in 1..Len(smoothCall.raw) :
              LET e == smoothCall.before.ema[i]
                  r == smoothCall.raw[i]
                  v == smoothCall.ret[i]
              IN /\ ThreeToOne(v.x, e.x, r.x)
                 /\ ThreeToOne(v.y, e.y, r.y)
                 /\ IF e.z # Undefined /\ r.z # Undefined
                       THEN ThreeToOne(v.z, e.z, r.z)
                       ELSE v.z = r.z

\* an update with a raw set that differs from the state in x, in y and in z,
\* with z defined on both sides at one landmark and undefined at another
C23_Witness ==
    /\ EmaUpdate
    /\ \E i \in 1..Len(smoothCall.raw) :
          LET e == smoothCall.before.ema[i]
              r == smoothCall.raw[i]
          IN /\ e.x # r.x /\ e.y # r.y
             /\ e.z # Undefined /\ r.z # Undefined /\ e.z # r.z
    /\ \E i \in 1..Len(smoothCall.raw) :
          smoothCall.before.ema[i].z = Undefined /\ smoothCall.raw[i].z # Undefined

\* C24: on uninitialised EMA state smoothLandmarks(L1) stores and returns L1
\* verbatim; smoothLandmarks(L1) on the EMA state L1 returns L1 and leaves the
\* state L1.
C24_ConstantInputFixedPoint ==
    /\ (smoothCall # NoCall /\ smoothCall.before.ema = NULL) =>
          /\ ~smoothCall.threw
          /\ smoothCall.ret = smoothCall.raw
          /\ smoothCall.after.ema = smoothCall.raw
    /\ (smoothCall # NoCall /\ smoothCall.before.ema = smoothCall.raw) =>
          /\ ~smoothCall.threw
          /\ smoothCall.ret = smoothCall.raw
          /\ smoothCall.after.ema = smoothCall.raw

\* the second call with the set that initialised the state
C24_Witness ==
    /\ smoothCall # NoCall
    /\ smoothCall.calls = 2
    /\ smoothCall.before.ema = smoothCall.raw
    /\ emaLandmarks = smoothCall.raw

\* the coordinate c of the state is within 6% of the step from the raw value
WithinSixPercent(c, l0, l1) ==
    RatNoMore(RatMul(RatInt(100), RatDist(c, l1)), RatMul(RatInt(6), RatDist(l1, l0)))

\* C25: after ten calls in a row with the raw set L1, begun on the EMA state
\* L0, every coordinate of the output is within 6% of |L1 - L0| from L1, and
\* no call of the run takes a coordinate further from L1.
C25_EmaConverges ==
    (EmaUpdate /\ smoothCall.reps >= 1) =>
        \A i \in 1..Len(smoothCall.raw) :
            LET l0 == smoothCall.start[i]
                l1 == smoothCall.raw[i]
                e == smoothCall.before.ema[i]
                v == smoothCall.ret[i]
            IN /\ RatNoMore(RatDist(v.x, l1.x), RatDist(e.x, l1.x))
               /\ RatNoMore(RatDist(v.y, l1.y), RatDist(e.y, l1.y))
               /\ (e.z # Undefined /\ l1.z # Undefined) =>
                     RatNoMore(RatDist(v.z, l1.z), RatDist(e.z, l1.z))
               /\ smoothCall.reps = 10 =>
                     /\ WithinSixPercent(v.x, l0.x, l1.x)
                     /\ WithinSixPercent(v.y, l0.y, l1.y)
                     /\ l1.z = Undefined => v.z = Undefined
                     /\ (l1.z # Undefined /\ l0.z = Undefined) => v.z = l1.z
                     /\ (l1.z # Undefined /\ l0.z # Undefined) =>
                           WithinSixPercent(v.z, l0.z, l1.z)

\* the tenth call of a run whose raw set differs from the state it began on
C25_Witness ==
    /\ EmaUpdate
    /\ smoothCall.reps = 10
    /\ \E i \in 1..Len(smoothCall.raw) :
          /\ smoothCall.start[i].x # smoothCall.raw[i].x
          /\ smoothCall.start[i].z # Undefined
          /\ smoothCall.raw[i].z # Undefined
          /\ smoothCall.start[i].z # smoothCall.raw[i].z
    /\ emaLandmarks = smoothCall.ret
    /\ emaLandmarks # smoothCall.raw

(***************************************************************************)
(* Properties of the colour stabilisation (STEP 8).                        *)
(***************************************************************************)
\* v lies between a and b, inclusive
Between(v, a, b) ==
    /\ (IF a < b THEN a ELSE b) <= v
    /\ v <= (IF a < b THEN b ELSE a)

\* C26: for every pixel with featheredMask > 0 and every colour channel the
\* value STEP 8 stores in processedSkinData lies between the value of the frame
\* before and the remapped value of this frame, inclusive; a pixel with
\* featheredMask = 0 is not blended.
C26_BlendBetweenFrames ==
    (out # NotApplied /\ frame.lastProcessedSkin # NULL) =>
        IF MaskPositive(out.featheredMask)
        THEN \A c \in 1..3 :
                Between(out.processedSkinData[c],
                        frame.lastProcessedSkin[c], out.remappedSkinData[c])
        ELSE out.processedSkinData = out.remappedSkinData

\* a skin pixel whose three channels all moved, none of them to either end
C26_Witness ==
    /\ out # NotApplied
    /\ frame.lastProcessedSkin # NULL
    /\ MaskPositive(out.featheredMask)
    /\ \A c \in 1..3 :
          /\ out.processedSkinData[c] # frame.lastProcessedSkin[c]
          /\ out.processedSkinData[c] # out.remappedSkinData[c]

\* C27: with lastProcessedSkin null applyUVFilter blends nothing, the remapped
\* colours are used as they are; after every call lastProcessedSkin is a copy of
\* the buffer STEP 8 leaves: the remapped colours on the first frame, the
\* blended ones later.
C27_FirstFrameUnblended ==
    out # NotApplied =>
        /\ frame.lastProcessedSkin = NULL =>
              /\ out.processedSkinData = out.remappedSkinData
              /\ out.lastProcessedSkin = out.remappedSkinData
              /\ lastProcessedSkin = "fresh"
        /\ frame.lastProcessedSkin # NULL =>
              /\ out.lastProcessedSkin = out.processedSkinData
              /\ lastProcessedSkin = "blended"

\* the first frame, at a pixel of the skin that the remap has changed
C27_Witness ==
    /\ out # NotApplied
    /\ frame.lastProcessedSkin = NULL
    /\ out.lut = "skin"
    /\ out.remappedSkinData # frame.originalData
    /\ out.lastProcessedSkin = out.remappedSkinData
    /\ lastProcessedSkin = "fresh"

(***************************************************************************)
(* Properties of the remap.                                                *)
(***************************************************************************)
\* applyUVLUT has returned the colour of a skin pixel brighter than 140
BrightSkin ==
    /\ out # NotApplied
    /\ frame.type = "skin"
    /\ frame.r + frame.g + frame.b > 3 * 140

\* the returned colour has b >= g >= r and no channel above 255
BlueDominant ==
    /\ ~DblLess(out.b, out.g)
    /\ ~DblLess(out.g, out.r)
    /\ \A c \in {out.r, out.g, out.b} : ~DblLess(DblInt(255), c)

\* C28 as stated: for every input colour with mean brightness > 140,
\* applyUVLUT(r, g, b, 'skin') returns b >= g >= r with every channel <= 255.
C28_BrightSkinBlueDominant == BrightSkin => BlueDominant

\* C28: for every input colour with mean brightness > 140 whose blue is at least
\* its green (for example (200,200,200)), applyUVLUT(r, g, b, 'skin') returns
\* b >= g >= r with every channel <= 255.
C28_BlueDominantFromBlue == (BrightSkin /\ frame.b >= frame.g) => BlueDominant

\* the remap of (200, 200, 200): (120, 230, 255)
C28_Witness ==
    /\ BrightSkin
    /\ frame.r = 200 /\ frame.g = 200 /\ frame.b = 200
    /\ out # NotApplied
    /\ \A c \in {<< out.r, 120 >>, << out.g, 230 >>, << out.b, 255 >>} :
           ~DblLess(c[1], DblInt(c[2])) /\ ~DblLess(DblInt(c[2]), c[1])

\* C29: for every region type and every input colour with channels in 0..255,
\* each channel applyUVLUT returns lies in [0, 255].
C29_RemapInRange ==
    out # NotApplied =>
        \A c \in {out.r, out.g, out.b} : ~DblLess(c, DblInt(0)) /\ ~DblLess(DblInt(255), c)

\* white hair: all three sums are above 255 and are cut to it
C29_Witness ==
    /\ out # NotApplied
    /\ frame.type = "hair"
    /\ frame.r = 255 /\ frame.g = 255 /\ frame.b = 255
    /\ out = [r |-> DblInt(255), g |-> DblInt(255), b |-> DblInt(255)]

(***************************************************************************)
(* Properties of the detector's admission.                                 *)
(***************************************************************************)
\* C30: any two consecutive calls of faceMesh.send() that onFrame makes are at
\* least frameInterval = 1000/30 ms apart, however often onFrame and the render
\* loops tick.
C30_SendsFrameIntervalApart == ~sendClock.early

\* onFrame has just made its second call, the first one settled
C30_Witness ==
    /\ sendClock.sends = 2
    /\ sendClock.age = 0
    /\ inFlight = 1
    /\ lastFrameTime = now

(***************************************************************************)
(* Properties of the held pose.                                            *)
(***************************************************************************)
\* the last detector result had no face
NoFaceSeen == out # NotApplied /\ ~out.face

\* C31: a detector result with no face switches to fallback only when no
\* landmarks are held; with lastLandmarks non-null it leaves fallbackActive,
\* lastLandmarks, emaLandmarks and the running render loop as they were.
C31_NoFaceHoldsPose ==
    NoFaceSeen =>
        /\ out.toFallback => ~out.held
        /\ out.held => out.same

\* a no-face result while tracking, with the render loop's callback pending
C31_Witness ==
    /\ NoFaceSeen
    /\ out.held
    /\ out.same
    /\ inFlight = 0
    /\ lastLandmarks # NULL
    /\ ~fallbackActive
    /\ \E cb \in rafQueue : cb.id = animationFrame

(***************************************************************************)
(* Properties of the region lists.                                         *)
(***************************************************************************)
\* the entries of a sequence
Entries(seq) == {seq[k] : k \in 1..Len(seq)}

\* C32: with a landmark list of length n < 468 every mask builder goes on with
\* the region indices below n and no other, reads no landmark at an index
\* >= n, and does not throw: it returns a mask value in [0, 1].
C32_ShortListsSkipped ==
    (out # NotApplied /\ Len(frame.landmarks) < 468) =>
        /\ \A k \in 1..Len(out.filtered) :
              Entries(out.filtered[k].kept) =
                 {idx \in Entries(out.filtered[k].indices) : idx < Len(frame.landmarks)}
        /\ ~out.threw
        /\ MaskInUnit(out.mask)

\* the strict skin mask built from 324 landmarks: indices are skipped in each of
\* its five lists, the last landmark of the list (323) is used, and the pixel
\* is skin
C32_Witness ==
    /\ out # NotApplied
    /\ frame.builder = "createStrictBinarySkinMask"
    /\ Len(frame.landmarks) = 324
    /\ Len(out.filtered) = 5
    /\ \A k \in 1..5 :
          /\ Len(out.filtered[k].kept) > 0
          /\ Len(out.filtered[k].kept) < Len(out.filtered[k].indices)
    /\ 323 \in Entries(out.filtered[1].kept)
    /\ out.mask = MaskOne

(***************************************************************************)
(* Properties of the render loops.                                         *)
(***************************************************************************)
\* C33: a startImmediateFallback call made while renderLoopActive is true is a
\* no-op: the pending requestAnimationFrame callback stays scheduled and
\* fallbackActive, renderLoopActive and animationFrame are unchanged.
C33_ActiveLoopLeftAlone ==
    [][(renderLoopActive /\ CallStartImmediateFallback) =>
          UNCHANGED << rafQueue, fallbackActive, renderLoopActive, animationFrame >>]_vars

\* C34: at most one requestAnimationFrame render callback is pending, whatever
\* the order of the calls, and this.animationFrame is the handle of the
\* pending callback.
C34_AtMostOneRenderLoop ==
    /\ Cardinality(rafQueue) <= 1
    /\ \A cb \in rafQueue : cb.id = animationFrame

\* the hard-fallback loop has taken over from the whole-frame loop, whose last
\* frame is still on the canvas: one callback is pending, the hard loop's
C34_Witness ==
    /\ canvas.pipeline = "whole"
    /\ canvas.byLoop
    /\ \E cb \in rafQueue : cb.fn = "hardDrawFrame" /\ cb.id = animationFrame

(***************************************************************************)
(* Properties of the camera stream.                                        *)
(***************************************************************************)
\* C35: activateHardFallback, for every reason and both values of
\* stopMediaPipeOnly, stops no track of cameraStream, leaves video.srcObject,
\* cameraStream and streamActive as they were, and stops the MediaPipe Camera
\* utility only when stopMediaPipeOnly is true.
C35_StreamNeverStopped ==
    /\ page = StreamGranted
    /\ out # NotApplied =>
          /\ out.streamKept
          /\ out.cameraStopped => out.stopMediaPipeOnly

\* a call with stopMediaPipeOnly that has stopped the running Camera utility,
\* the stream live
C35_Witness ==
    /\ out # NotApplied
    /\ out.stopMediaPipeOnly
    /\ out.cameraStopped
    /\ out.streamKept
    /\ camera = "stopped"
    /\ fallbackActive
    /\ page.tracksLive /\ page.srcObject /\ page.cameraStream /\ page.streamActive

(***************************************************************************)
(* Properties of setupFaceMesh.                                            *)
(***************************************************************************)
\* C36: after any number of setupFaceMesh calls at most one FaceMesh instance
\* and at most one MediaPipe Camera instance have been created and started,
\* and a call made when this.faceMesh is already set changes no state.
C36_SetupIdempotent ==
    /\ page.faceMeshes <= 1
    /\ page.cameras <= 1
    /\ (out # NotApplied /\ out.hadFaceMesh) => out.same

\* a second call, made with the FaceMesh and the running Camera of the first
C36_Witness ==
    /\ out # NotApplied
    /\ out.hadFaceMesh
    /\ out.same
    /\ page.faceMeshes = 1
    /\ page.cameras = 1
    /\ faceMesh
    /\ camera = "running"

(***************************************************************************)
(* Properties of the held pose.                                            *)
(***************************************************************************)
\* C37: once lastLandmarks and emaLandmarks are non-null they are non-null in
\* every later state, through no-face results, detector errors and fallback
\* activations; a frame has been masked only with landmarks held, so the
\* `no landmarks' exits are taken only before the first face.
C37_HeldLandmarksKept ==
    /\ [](canvas.pipeline = "masked" => lastLandmarks # NULL)
    /\ []((lastLandmarks = NULL) <=> (emaLandmarks = NULL))
    /\ [][(lastLandmarks # NULL => lastLandmarks' # NULL) /\
           (emaLandmarks # NULL => emaLandmarks' # NULL)]_vars

\* the pose of a face is still held after the detector's errors have reached
\* the failure threshold and fallback is active
C37_Witness ==
    /\ lastLandmarks # NULL
    /\ emaLandmarks # NULL
    /\ fallbackActive
    /\ faceMeshFailCount >= FailThreshold

(***************************************************************************)
(* Properties of the skin and the background mask.                         *)
(***************************************************************************)
\* C38: no pixel has featheredSkinMask > 0 and backgroundMask > 0.5 at the
\* same time, for every landmark set: a skin pixel lies inside the face
\* polygon, which is part of the person mask.
C38_SkinBackgroundDisjoint ==
    Applied =>
        /\ ~(MaskPositive(out.featheredMask) /\ MaskAbove(out.backgroundMask, Rat(1, 2)))
        /\ MaskPositive(out.featheredMask) => out.personMask = MaskOne

\* a skin pixel of the whole face: the person mask is 1 there and the
\* background mask 0
C38_Witness ==
    /\ Applied
    /\ frame.landmarks = FaceA
    /\ MaskPositive(out.featheredMask)
    /\ out.personMask = MaskOne
    /\ out.backgroundMask = MaskZero

(***************************************************************************)
(* Properties of the alpha channel.                                        *)
(***************************************************************************)
\* C39: at every pixel the alpha channel of the frame applyUVFilter hands to
\* putImageData equals the alpha channel of the captured original frame; the
\* softness and vignette passes modify only R, G and B.
C39_AlphaPreserved ==
    Applied =>
        /\ out.finalImageData[4] = frame.originalData[4]
        /\ out.softened[4] = out.finalImageData[4]
        /\ out.emitted[4] = out.softened[4]

====
